---- MODULE Spec2Model ----
(***************************************************************************)
(* Model of the automation facade of advanced_hwp_server.py: the global    *)
(* AdvancedHwpController (hwp, is_initialized, current_document) and the   *)
(* tool operations that drive the external word processor through it.      *)
(*                                                                         *)
(* Every tool operation is one action.  Its body is translated statement   *)
(* by statement into a chain of steps over an execution context; a step    *)
(* is skipped once an exception is propagating or a value was returned,    *)
(* which is how try / except / return are rendered.  Each call into the    *)
(* external world may raise: an action draws the set F of call sites that  *)
(* raise in this invocation and the set T of call sites that answer with   *)
(* a truthy value.                                                         *)
(***************************************************************************)
EXTENDS Integers, Sequences, FiniteSets, TLC

\* ------------------------------------------------------------------ bounds
MaxDocs == 2          \* open documents the application holds at most
MaxFailures == 1      \* external calls that raise within one invocation
MaxPages == 2         \* largest PageCount the application reports
MaxInitDocs == 1      \* documents open in the application at construction
MaxFailIter == 2      \* the attempts of the closing loop that may raise: 1..MaxFailIter
MaxTextLen == 3       \* length of the document text find_text scans
MaxSearchLen == 2     \* length of find_text's search_text
MaxReadLen == 3       \* length of the text GetTextFile answers with
MaxParaIndex == 1     \* largest paragraph_index passed to get_paragraph_text
MaxNameLen == 1       \* length of switch_to_document's file_name
MaxCtrls == 3         \* controls in the document get_table_as_csv walks
MaxBodyLen == 2       \* characters of the document when the controller is built
MaxGrownLen == 4      \* characters of a document that text is still inserted in
MaxNth == 2           \* largest nth_occurrence
MaxPairs == 3         \* comma-separated pieces of batch_replace's argument
MaxBatchLen == 1      \* characters of the document batch_replace works on
MaxFields == 2        \* name=value pairs given to fill_template
MaxWindows == 2       \* top-level windows EnumWindows enumerates
MaxFindLen == 4       \* characters of the document find_text searches

\* --------------------------------------------------------- program values
None == "None"                 \* Python's None
HwpObject == "HwpObject"       \* a COM automation object "HWPFrame.HwpObject"
NewDocumentTag == "new_document"
FilePaths == {"a.hwp"}                  \* file_path arguments
DocPaths == {""} \cup FilePaths         \* XHwpDocuments.Item(i).Path ("" = unsaved)

VARIABLES
    hwp,                \* hwp_controller.hwp
    is_initialized,     \* hwp_controller.is_initialized
    current_document,   \* hwp_controller.current_document
    docs,               \* the application's XHwpDocuments, oldest first
    just_quit,          \* the last operation run was a successful quit_hwp
    just_switched,      \* the index the last operation run activated by
                        \* switch_to_document, -1 if it did not
    content,            \* the active document: its text and its controls
    last,               \* the tool call being answered: what it did and returned
    shadow,             \* a second run, started with another current_document
    scan                \* find_text's scan loop: its locals and position

vars == <<hwp, is_initialized, current_document, docs, just_quit, just_switched,
          content, last, shadow, scan>>

\* A document without text and without controls.
NoContent == [text |-> <<>>, ctrls |-> <<>>]

\* ------------------------------------------------------ execution context
\* A returned status string: its kind ("success": the return at the end of
\* the operation's try body, "failure": the return of the except clause at
\* the operation boundary, "early": any other return statement), the
\* message, the document name and the count it carries.
NoRet == [kind |-> "none", msg |-> "", doc |-> "", n |-> 0]

\* hwp, init, cur: the controller's fields; docs: the application's
\* documents; loc: what the local variable `hwp` of the running operation
\* refers to ("None", "ctrl": hwp_controller.hwp, "local": an object of its
\* own); val: what initialize() returned; cnt: the local closed_count;
\* brk: the running loop was left by break; inner: control is inside an
\* inner try block; out: the text of the returned string, where an
\* operation builds it from data; args: the operation's arguments, where a
\* property refers to them.
Ctx(h, i, d, ds) ==
    [hwp |-> h, init |-> i, cur |-> d, docs |-> ds, loc |-> "None",
     logs |-> <<>>, calls |-> <<>>, exc |-> FALSE, ret |-> NoRet,
     val |-> FALSE, cnt |-> 0, brk |-> FALSE, phase |-> "op", inner |-> FALSE,
     out |-> <<>>, args |-> <<>>, content |-> NoContent,
     target |-> 0, rows |-> 0, cols |-> 0, lines |-> <<>>, sel |-> <<0, 0>>]

\* Control is at this statement: nothing raised, nothing returned.
Live(c) == ~c.exc /\ c.ret.kind = "none"

Raise(c) == IF Live(c) THEN [c EXCEPT !.exc = TRUE] ELSE c

\* One call into the external world at call site `site`.  target is
\* "module" (pythoncom, win32com, subprocess), "handle" (hwp_controller.hwp)
\* or "local" (an automation object held in a local variable only).  The
\* call raises when its site is in F.
Call(c, site, target, F) ==
    IF ~Live(c) THEN c
    ELSE [c EXCEPT !.calls = Append(@, [name |-> site, target |-> target,
                                        init |-> c.init, h |-> c.hwp # None,
                                        phase |-> c.phase, inner |-> c.inner,
                                        failed |-> site \in F]),
                   !.exc = site \in F]

\* A call on an object other than the handle that carries an argument of
\* interest.
CallArg(c, site, target, arg, F) ==
    IF ~Live(c) THEN c
    ELSE [c EXCEPT !.calls = Append(@, [name |-> site, target |-> target,
                                        init |-> c.init, h |-> c.hwp # None,
                                        phase |-> c.phase, inner |-> c.inner,
                                        failed |-> site \in F, arg |-> arg]),
                   !.exc = site \in F]

\* A call on hwp_controller.hwp that carries an argument and whose result
\* the operation reads.
HCallRes(c, site, arg, res, F) ==
    IF ~Live(c) THEN c
    ELSE IF c.hwp = None THEN [c EXCEPT !.exc = TRUE]
    ELSE [c EXCEPT !.calls = Append(@, [name |-> site, target |-> "handle",
                                        init |-> c.init, h |-> c.hwp # None,
                                        phase |-> c.phase, inner |-> c.inner,
                                        failed |-> site \in F, arg |-> arg,
                                        res |-> res]),
                   !.exc = site \in F]

\* A call on hwp_controller.hwp that carries an argument of interest.
HCallArg(c, site, arg, F) ==
    IF ~Live(c) THEN c
    ELSE IF c.hwp = None THEN [c EXCEPT !.exc = TRUE]
    ELSE [c EXCEPT !.calls = Append(@, [name |-> site, target |-> "handle",
                                        init |-> c.init, h |-> c.hwp # None,
                                        phase |-> c.phase, inner |-> c.inner,
                                        failed |-> site \in F, arg |-> arg]),
                   !.exc = site \in F]

\* return <text built from data>
Output(c, kind, msg, text) ==
    IF Live(c)
    THEN [c EXCEPT !.ret = [kind |-> kind, msg |-> msg, doc |-> "", n |-> 0],
                   !.out = text]
    ELSE c

\* A call on hwp_controller.hwp: attribute access on None raises before any
\* call is made.
HCall(c, site, F) ==
    IF ~Live(c) THEN c
    ELSE IF c.hwp = None THEN Raise(c)
    ELSE Call(c, site, "handle", F)

\* A call on the operation's local variable `hwp`.
LCall(c, site, F) ==
    IF ~Live(c) THEN c
    ELSE IF c.loc = "None" THEN Raise(c)
    ELSE Call(c, site, IF c.loc = "ctrl" THEN "handle" ELSE "local", F)

Log(c, level) == IF Live(c) THEN [c EXCEPT !.logs = Append(@, level)] ELSE c

Return(c, kind, msg, doc, n) ==
    IF Live(c)
    THEN [c EXCEPT !.ret = [kind |-> kind, msg |-> msg, doc |-> doc, n |-> n]]
    ELSE c

\* try: (entering an inner try block)
Try(c) == IF Live(c) THEN [c EXCEPT !.inner = TRUE] ELSE c

\* except: pass   (c0 at the try, c1 after the block's body)
Swallow(c0, c1) ==
    IF Live(c0) THEN [c1 EXCEPT !.exc = FALSE, !.inner = c0.inner] ELSE c1

\* try: hwp_controller.hwp.<site>  except: pass
BestEffortCall(c, site, F) == Swallow(c, HCall(Try(c), site, F))

\* --------------------------------------------------------- sequencing
\* A body is written as a chain of singleton sets S0, S1, ...: each statement
\* maps the context the previous statement left (S_k == {stmt(c) : c \in S_k-1}).
One(S) == CHOOSE x \in S : TRUE

\* Consecutive calls: calls[i] = <<site, on>>, on "handle" for a call on
\* hwp_controller.hwp, "local" for one on the local variable hwp, "module"
\* for a library function.
RECURSIVE Calls(_, _, _, _)
Calls(c, calls, i, F) ==
    IF i > Len(calls) THEN c
    ELSE One({Calls(d, calls, i + 1, F) :
              d \in {IF calls[i][2] = "handle" THEN HCall(c, calls[i][1], F)
                     ELSE IF calls[i][2] = "local" THEN LCall(c, calls[i][1], F)
                     ELSE Call(c, calls[i][1], "module", F)}})

\* Variants of the operation boundary: one that lets the exception go on, one
\* that returns the failure string without logging.
ExceptReraise(c, msg) == c
ExceptSilent(c, msg) ==
    IF c.exc
    THEN [c EXCEPT !.exc = FALSE,
                   !.ret = [kind |-> "failure", msg |-> msg, doc |-> "", n |-> 0]]
    ELSE c

\* The operation boundary of an operation whose failure string is compared
\* with its data:   return f"<marker>: {e}"
ExceptOutput(c, msg, text) ==
    IF c.exc
    THEN [c EXCEPT !.exc = FALSE, !.logs = Append(@, "error"),
                   !.ret = [kind |-> "failure", msg |-> msg, doc |-> "", n |-> 0],
                   !.out = text]
    ELSE c

\* The operation boundary:
\*   except Exception as e: logger.error(...); return f"... failed: {e}"
Except(c, msg) ==
    IF c.exc
    THEN [c EXCEPT !.exc = FALSE, !.logs = Append(@, "error"),
                   !.ret = [kind |-> "failure", msg |-> msg, doc |-> "", n |-> 0]]
    ELSE c

\* ------------------------------------------- AdvancedHwpController.initialize
BestEffortSites == <<"RegisterModule(FilePathCheckDLL)", "RegisterModule(SecurityModule)",
                     "SetPrivateInfoProtection", "MessageBoxMode=0", "EditMode=1",
                     "SetMessageBoxMode(0)">>

InitSites == {"CoInitialize", "EnsureDispatch", "Dispatch", "XHwpWindows.Count",
              "XHwpWindows.Item(0).Visible"}
             \cup {BestEffortSites[i] : i \in 1..Len(BestEffortSites)}
InitTruthy == {"XHwpWindows.Count>0"}

\* the six   try: self.hwp.<setting>  except: pass   blocks, in order
RECURSIVE BestEffort(_, _, _)
BestEffort(c, i, F) ==
    IF i > Len(BestEffortSites) THEN c
    ELSE One({BestEffort(d, i + 1, F) : d \in {BestEffortCall(c, BestEffortSites[i], F)}})

\* try: self.hwp = EnsureDispatch(...)  except: self.hwp = Dispatch(...)
DispatchHwp(c, F) ==
    IF ~Live(c) THEN c
    ELSE One({ One({IF Live(d) THEN [d EXCEPT !.hwp = HwpObject] ELSE d :
                    d \in {IF e.exc
                           THEN Call(Swallow(c, e), "Dispatch", "module", F)
                           ELSE Swallow(c, e)}}) :
               e \in {Call(Try(c), "EnsureDispatch", "module", F)} })

\* if self.hwp.XHwpWindows.Count > 0: self.hwp.XHwpWindows.Item(0).Visible = True
ShowWindow(c, F, T) ==
    One({IF Live(d) /\ "XHwpWindows.Count>0" \in T
         THEN HCall(d, "XHwpWindows.Item(0).Visible", F)
         ELSE d : d \in {HCall(c, "XHwpWindows.Count", F)}})

initialize(c0, F, T) ==
    LET S0 == {Call([c0 EXCEPT !.phase = "init"], "CoInitialize", "module", F)}
        S1 == {DispatchHwp(c, F) : c \in S0}
        S2 == {BestEffort(c, 1, F) : c \in S1}
        S3 == {ShowWindow(c, F, T) : c \in S2}
        S4 == {IF Live(c) THEN [c EXCEPT !.init = TRUE] ELSE c : c \in S3}
        S5 == {Log(c, "info") : c \in S4}
        S6 == {IF c.exc
               THEN [c EXCEPT !.exc = FALSE, !.logs = Append(@, "error"), !.val = FALSE]
               ELSE [c EXCEPT !.val = TRUE] : c \in S5}
    IN  One({[c EXCEPT !.phase = "op"] : c \in S6})

\* A check that trusts whatever handle is there.
check_initializationSkipped(c, F, T) == c

check_initialization(c, F, T) ==
    IF ~Live(c) \/ c.init THEN c
    ELSE One({IF d.val THEN d ELSE Raise(d) : d \in {initialize(c, F, T)}})

\* ------------------------------------------------------------- operations
\* Each X_op(c0, F, T, ...) is the tool X run from context c0.

\* (both "initialization failed" strings are of kind "failure")
initialize_hwp_op(c0, F, T) ==
    LET S0 == {initialize(c0, F, T)}
        S1 == {IF c.val THEN Return(c, "success", "initialize_hwp: ok", "", 0)
                        ELSE Return(c, "failure", "initialize_hwp: failed", "", 0) : c \in S0}
    IN  One({Except(c, "initialize_hwp: error") : c \in S1})

\* The handle the inspection tools work on: the controller's when it is
\* initialized, else one of their own from GetActiveObject or Dispatch.
AcquireSites == {"GetActiveObject", "Dispatch(local)", "XHwpDocuments.Count(probe)"}
AcquireHandle(c, F) ==
    IF ~Live(c) THEN c
    ELSE IF c.init /\ c.hwp # None THEN [c EXCEPT !.loc = "ctrl"]
    ELSE One({
        IF g.loc # "None" THEN g
        ELSE One({
            IF p.exc
            THEN Return(Swallow(g, p), "early", "no running program", "", 0)
            ELSE IF Len(p.docs) = 0
                 THEN Return(Swallow(g, p), "early", "no running program", "", 0)
                 ELSE Swallow(g, p) :
            p \in {One({LCall(IF Live(d) THEN [d EXCEPT !.loc = "local"] ELSE d,
                              "XHwpDocuments.Count(probe)", F) :
                        d \in {Call(Try(g), "Dispatch(local)", "module", F)}})} }) :
        g \in {One({Swallow(c, IF Live(d) THEN [d EXCEPT !.loc = "local"] ELSE d) :
                    d \in {Call(Try(c), "GetActiveObject", "module", F)}})} })

\* for i in range(doc_count): doc = hwp.XHwpDocuments.Item(i); ... doc.Path ...
RECURSIVE ListDocuments(_, _, _, _)
ListDocuments(c, i, n, F) ==
    IF i >= n \/ ~Live(c) THEN c
    ELSE One({ListDocuments(d, i + 1, n, F) :
              d \in {Calls(c, <<<<"XHwpDocuments.Item(i)", "local">>,
                                 <<"doc.Path", "local">>>>, 1, F)}})

RunningSites == {"CoInitialize", "XHwpDocuments.Count", "XHwpDocuments.Item(i)",
                 "doc.Path", "subprocess.run(tasklist)"} \cup AcquireSites
get_running_hwp_documents_op(c0, F, T) ==
    LET S0 == {Call(c0, "CoInitialize", "module", F)}
        S1 == {AcquireHandle(c, F) : c \in S0}
        S2 == {LCall(c, "XHwpDocuments.Count", F) : c \in S1}
        S3 == {IF Len(c.docs) = 0
               THEN Return(c, "early", "get_running_hwp_documents: no open documents", "", 0)
               ELSE c : c \in S2}
        S4 == {ListDocuments(c, 0, Len(c.docs), F) : c \in S3}
        S5 == {Swallow(c, Call(Try(c), "subprocess.run(tasklist)", "module", F)) : c \in S4}
        S6 == {Log(c, "info") : c \in S5}
        S7 == {Return(c, "success", "get_running_hwp_documents: list", "", Len(c.docs)) : c \in S6}
    IN  One({Except(c, "get_running_hwp_documents: failed") : c \in S7})

\* current_doc.Path if current_doc.Path else <new document label>
NewDocLabel == "(new document)"
PathOrLabel(path) == IF path = "" THEN NewDocLabel ELSE path

ConnectSites == {"CoInitialize", "GetActiveObject", "Dispatch(local)",
                 "XHwpDocuments.Count(probe)", "XHwpDocuments.Count",
                 "XHwpDocuments.Item(0)", "current_doc.Path"}
connect_to_running_hwp_op(c0, F, T) ==
    LET S0 == {Call(c0, "CoInitialize", "module", F)}
        \* try: hwp = GetActiveObject(...)  except: pass
        S1 == {One({Swallow(c, IF Live(d) THEN [d EXCEPT !.loc = "local"] ELSE d) :
                    d \in {Call(Try(c), "GetActiveObject", "module", F)}}) : c \in S0}
        \* if hwp is None: try: hwp = Dispatch(...); if Count == 0: ... return
        \*                 except Exception as e: return f"... failed: {e}"
        S2 == {IF ~Live(c) \/ c.loc # "None" THEN c
               ELSE One({
                   IF p.exc
                   THEN Return(Swallow(c, p), "early", "connect_to_running_hwp: failed", "", 0)
                   ELSE IF Len(p.docs) = 0
                        THEN Return([Swallow(c, p) EXCEPT !.hwp = HwpObject, !.init = TRUE],
                                    "early", "connect_to_running_hwp: started", "", 0)
                        ELSE Swallow(c, p) :
                   p \in {One({LCall(IF Live(d) THEN [d EXCEPT !.loc = "local"] ELSE d,
                                     "XHwpDocuments.Count(probe)", F) :
                               d \in {Call(Try(c), "Dispatch(local)", "module", F)}})} }) :
               c \in S1}
        S3 == {IF Live(c) THEN [c EXCEPT !.hwp = HwpObject, !.init = TRUE, !.loc = "ctrl"]
               ELSE c : c \in S2}
        S4 == {HCall(c, "XHwpDocuments.Count", F) : c \in S3}
        S5 == {IF Live(c) /\ Len(c.docs) > 0
               THEN One({IF Live(d) THEN [d EXCEPT !.cur = PathOrLabel(d.docs[1])] ELSE d :
                         d \in {Calls(c, <<<<"XHwpDocuments.Item(0)", "handle">>,
                                            <<"current_doc.Path", "handle">>>>, 1, F)}})
               ELSE c : c \in S4}
        S6 == {Log(c, "info") : c \in S5}
        S7 == {Return(c, "success", "connect_to_running_hwp: ok", "", Len(c.docs)) : c \in S6}
    IN  One({Except(c, "connect_to_running_hwp: failed") : c \in S7})

\* create_document without its logger.info line.
create_document_opQuiet(c0, F, T) ==
    LET S0 == {check_initialization(c0, F, T)}
        S1 == {HCall(c, "Run(FileNew)", F) : c \in S0}
        S2 == {IF Live(c)
               THEN [c EXCEPT !.cur = NewDocumentTag, !.docs = Append(@, "")]
               ELSE c : c \in S1}
        S4 == {Return(c, "success", "create_document: ok", "", 0) : c \in S2}
    IN  One({Except(c, "create_document: failed") : c \in S4})

create_document_op(c0, F, T) ==
    LET S0 == {check_initialization(c0, F, T)}
        S1 == {HCall(c, "Run(FileNew)", F) : c \in S0}
        S2 == {IF Live(c)
               THEN [c EXCEPT !.cur = NewDocumentTag, !.docs = Append(@, "")]
               ELSE c : c \in S1}
        S3 == {Log(c, "info") : c \in S2}
        S4 == {Return(c, "success", "create_document: ok", "", 0) : c \in S3}
    IN  One({Except(c, "create_document: failed") : c \in S4})

\* try: SetForegroundWindow(XHwpWindows.Active_XHwpWindow.WindowHandle);
\*      ShowWindow(hwnd, 9)  except: pass
BringToFront(c, F) ==
    One({Swallow(c, d) :
         d \in {Calls(Try(c), <<<<"WindowHandle", "handle">>,
                                <<"SetForegroundWindow", "module">>,
                                <<"ShowWindow", "module">>>>, 1, F)}})

\* the fallback of open_document: HAction.GetDefault / filename / Format / Execute
OpenByAction(c, F) ==
    Calls(c, <<<<"GetDefault(FileOpen)", "handle">>, <<"HFileOpenSave.filename=", "handle">>,
               <<"HFileOpenSave.Format=", "handle">>, <<"Execute(FileOpen)", "handle">>>>, 1, F)

OpenSites == {"RegisterModule(open)", "Open", "WindowHandle", "SetForegroundWindow",
              "ShowWindow", "GetDefault(FileOpen)", "HFileOpenSave.filename=",
              "HFileOpenSave.Format=", "Execute(FileOpen)"}
OpenTruthy == {"os.path.exists", "Open"}
open_document_op(c0, F, T, file_path) ==
    LET S0 == {check_initialization(c0, F, T)}
        S1 == {IF "os.path.exists" \notin T
               THEN Return(c, "early", "open_document: file not found", file_path, 0)
               ELSE c : c \in S0}
        S2 == {BestEffortCall(c, "RegisterModule(open)", F) : c \in S1}
        S3 == {HCall(c, "Open", F) : c \in S2}
        S4 == {IF ~Live(c) THEN c
               ELSE IF "Open" \in T
               THEN One({Log(e, "info") :
                         e \in {One({BringToFront(d, F) :
                                     d \in {[c EXCEPT !.cur = file_path,
                                                      !.docs = Append(@, file_path)]}})}})
               ELSE One({Log(IF Live(d) THEN [d EXCEPT !.cur = file_path,
                                                       !.docs = Append(@, file_path)]
                             ELSE d, "info") : d \in {OpenByAction(c, F)}}) : c \in S3}
        S5 == {Return(c, "success", "open_document: ok", file_path, 0) : c \in S4}
    IN  One({Except(c, "open_document: failed") : c \in S5})

\* ---- close_all_documents
max_attempts == 100

CloseLoopSites == {"XHwpDocuments.Count(loop)", "Run(FileSave)", "Item(0).SetModified",
                   "Run(FileClose)"}

\* What Run("FileClose") does to the application: it closes the active (newest)
\* document, unless the application keeps its last `floor` documents open.
FileClose(ds, floor) == IF Len(ds) > floor THEN SubSeq(ds, 1, Len(ds) - 1) ELSE ds

\* One pass of the loop body, inside its try block; the calls of this pass
\* raise when their site is in Fk.
CloseAttempt(c, save_changes, floor, Fk) ==
    LET S0 == {HCall(c, "XHwpDocuments.Count(loop)", Fk)}
        S1 == {IF Live(d) /\ Len(d.docs) = 0 THEN [d EXCEPT !.brk = TRUE]
               ELSE IF save_changes THEN HCall(d, "Run(FileSave)", Fk) ELSE d : d \in S0}
        S2 == {IF d.brk THEN d
               ELSE Calls(d, <<<<"Item(0).SetModified", "handle">>,
                               <<"Run(FileClose)", "handle">>>>, 1, Fk) : d \in S1}
    IN  One({IF Live(d) /\ ~d.brk
             THEN [d EXCEPT !.docs = FileClose(@, floor), !.cnt = @ + 1]
             ELSE d : d \in S2})

\* An attempt whose except clause does not leave the loop.
CloseIterationGoesOn(c, k, save_changes, floor, F, failIter) ==
    IF c.brk \/ ~Live(c) THEN c
    ELSE One({IF d.exc
              THEN One({Log(h, "warning") : h \in {Swallow(c, d)}})
              ELSE Swallow(c, d) :
              d \in {One({CloseAttempt(t, save_changes, floor,
                                       IF k = failIter THEN F ELSE F \ CloseLoopSites) :
                          t \in {Try(c)}})}})

\* Attempt number k of the loop:
\*   try: <attempt>  except Exception as e: logger.warning(...); break
\* It is not run once the loop was left.  The calls of attempt failIter
\* raise as F says.
CloseIteration(c, k, save_changes, floor, F, failIter) ==
    IF c.brk \/ ~Live(c) THEN c
    ELSE One({IF d.exc
              THEN One({[g EXCEPT !.brk = TRUE] :
                        g \in {One({Log(h, "warning") : h \in {Swallow(c, d)}})}})
              ELSE Swallow(c, d) :
              d \in {One({CloseAttempt(t, save_changes, floor,
                                       IF k = failIter THEN F ELSE F \ CloseLoopSites) :
                          t \in {Try(c)}})}})

\* for _ in range(max_attempts): the attempts lo+1 .. hi in order (the range
\* is split in halves to keep the evaluation shallow)
RECURSIVE CloseLoop(_, _, _, _, _, _, _)
CloseLoop(c, lo, hi, save_changes, floor, F, failIter) ==
    IF hi <= lo THEN c
    ELSE IF hi = lo + 1 THEN CloseIteration(c, hi, save_changes, floor, F, failIter)
    ELSE One({CloseLoop(d, (lo + hi) \div 2, hi, save_changes, floor, F, failIter) :
              d \in {CloseLoop(c, lo, (lo + hi) \div 2, save_changes, floor, F, failIter)}})

close_all_documents_op(c0, F, T, save_changes, floor, failIter) ==
    LET S0 == {check_initialization(c0, F, T)}
        S1 == {CloseLoop(c, 0, max_attempts, save_changes, floor, F, failIter) : c \in S0}
        S2 == {IF Live(c) THEN [c EXCEPT !.cur = None] ELSE c : c \in S1}
        S3 == {Log(c, "info") : c \in S2}
        S4 == {Return(c, "success", "close_all_documents: ok", "", c.cnt) : c \in S3}
    IN  One({Except(c, "close_all_documents: failed") : c \in S4})

\* quit_hwp that drops the handle but leaves is_initialized set.
quit_hwp_opKeepsFlag(c0, F, T) ==
    LET S0 == {check_initialization(c0, F, T)}
        S1 == {HCall(c, "Quit", F) : c \in S0}
        S2 == {IF Live(c)
               THEN [c EXCEPT !.hwp = None, !.cur = None, !.docs = <<>>]
               ELSE c : c \in S1}
        S3 == {Log(c, "info") : c \in S2}
        S4 == {Return(c, "success", "quit_hwp: ok", "", 0) : c \in S3}
    IN  One({Except(c, "quit_hwp: failed") : c \in S4})

quit_hwp_op(c0, F, T) ==
    LET S0 == {check_initialization(c0, F, T)}
        S1 == {HCall(c, "Quit", F) : c \in S0}
        S2 == {IF Live(c)
               THEN [c EXCEPT !.hwp = None, !.init = FALSE, !.cur = None,
                              !.docs = <<>>]
               ELSE c : c \in S1}
        S3 == {Log(c, "info") : c \in S2}
        S4 == {Return(c, "success", "quit_hwp: ok", "", 0) : c \in S3}
    IN  One({Except(c, "quit_hwp: failed") : c \in S4})

ReplaceSites == {"Run(MoveDocBegin)", "GetDefault(AllReplace)", "GetDefault(Replace)",
                 "HFindReplace.FindString=", "HFindReplace.ReplaceString=",
                 "HFindReplace.ReplaceMode=", "Execute(AllReplace)", "Execute(Replace)"}
AllReplaceCalls == <<<<"GetDefault(AllReplace)", "handle">>,
                      <<"HFindReplace.FindString=", "handle">>,
                      <<"HFindReplace.ReplaceString=", "handle">>,
                      <<"HFindReplace.ReplaceMode=", "handle">>,
                      <<"Execute(AllReplace)", "handle">>>>
ReplaceCalls == <<<<"GetDefault(Replace)", "handle">>,
                   <<"HFindReplace.FindString=", "handle">>,
                   <<"HFindReplace.ReplaceString=", "handle">>,
                   <<"Execute(Replace)", "handle">>>>
ReplaceTruthy == {"Execute(Replace)"}
find_and_replace_op(c0, F, T, replace_all) ==
    LET S0 == {check_initialization(c0, F, T)}
        S1 == {HCall(c, "Run(MoveDocBegin)", F) : c \in S0}
        S2 == {Calls(c, IF replace_all THEN AllReplaceCalls ELSE ReplaceCalls, 1, F) : c \in S1}
        S3 == {IF "Execute(Replace)" \in T
               THEN Return(Log(c, "info"), "success", "find_and_replace: ok", "", 0)
               ELSE Return(c, "early", "find_and_replace: not found", "", 0) : c \in S2}
    IN  One({Except(c, "find_and_replace: failed") : c \in S3})

\* "document_name": hwp_controller.current_document or <new document label>
DocumentName(cur) == IF cur = None \/ cur = "" THEN NewDocLabel ELSE cur

InfoSites == {"PageCount", "GetPos", "ListCount"}
\* get_document_info that asks the application only when a path is tracked.
get_document_info_opTracked(c0, F, T) ==
    LET S0 == {check_initialization(c0, F, T)}
        S1 == {IF c.cur = None THEN c ELSE BestEffortCall(c, "PageCount", F) : c \in S0}
        S4 == {Log(c, "info") : c \in S1}
        S5 == {Return(c, "success", "get_document_info: info", DocumentName(c.cur), 0) : c \in S4}
    IN  One({Except(c, "get_document_info: failed") : c \in S5})

get_document_info_op(c0, F, T) ==
    LET S0 == {check_initialization(c0, F, T)}
        S1 == {BestEffortCall(c, "PageCount", F) : c \in S0}
        S2 == {BestEffortCall(c, "GetPos", F) : c \in S1}
        S3 == {BestEffortCall(c, "ListCount", F) : c \in S2}
        S4 == {Log(c, "info") : c \in S3}
        S5 == {Return(c, "success", "get_document_info: info", DocumentName(c.cur), 0) : c \in S4}
    IN  One({Except(c, "get_document_info: failed") : c \in S5})

GotoSites == {"PageCount", "GetDefault(Goto)", "HGotoE.PageNumber=", "Execute(Goto)"}
move_to_page_op(c0, F, T, page_number, total_pages) ==
    LET S0 == {check_initialization(c0, F, T)}
        S1 == {HCall(c, "PageCount", F) : c \in S0}
        S2 == {IF page_number < 1 \/ page_number > total_pages
               THEN Return(c, "early", "move_to_page: out of range", "", total_pages)
               ELSE c : c \in S1}
        S3 == {Calls(c, <<<<"GetDefault(Goto)", "handle">>, <<"HGotoE.PageNumber=", "handle">>,
                          <<"Execute(Goto)", "handle">>>>, 1, F) : c \in S2}
        S4 == {Log(c, "info") : c \in S3}
        S5 == {Return(c, "success", "move_to_page: ok", "", page_number) : c \in S4}
    IN  One({Except(c, "move_to_page: failed") : c \in S5})

ModeSites == {"MessageBoxMode=", "SetMessageBoxMode"}
set_automation_mode_op(c0, F, T, enabled) ==
    LET S0 == {check_initialization(c0, F, T)}
        S1 == {BestEffortCall(c, "MessageBoxMode=", F) : c \in S0}
        S2 == {BestEffortCall(c, "SetMessageBoxMode", F) : c \in S1}
        S3 == {Log(c, "info") : c \in S2}
        S4 == {IF enabled
               THEN Return(c, "success", "set_automation_mode: automation", "", 0)
               ELSE Return(c, "success", "set_automation_mode: normal", "", 0) : c \in S3}
    IN  One({Except(c, "set_automation_mode: failed") : c \in S4})

\* ---- text reading and insertion
\* Strings are sequences of tokens.  The tokens of the failure markers:
\* "T" the words of the marker both operations share, "F" its last word,
\* "P" the word get_paragraph_text's marker starts with; " " is white space.
ReadAlphabet == {"P", "T", "F", " "}
ReadTexts == UNION {[1..k -> ReadAlphabet] : k \in 0..MaxReadLen}
NoneText == <<None>>                     \* GetTextFile answers None
ReadAnswers == ReadTexts \cup {NoneText}
TextReadFailed == <<"T", "F">>           \* get_text_all's failure marker
ParaReadFailed == <<"P", "T", "F">>      \* get_paragraph_text's failure marker
ErrorText == <<":", "e">>                \* ": {e}"

\* if text is None: text = ""
TextOrEmpty(answer) == IF answer = NoneText THEN <<>> ELSE answer

\* str.strip()
Strip(str) ==
    LET kept == {i \in 1..Len(str) : str[i] # " "}
    IN  IF kept = {} THEN <<>>
        ELSE SubSeq(str, CHOOSE i \in kept : \A k \in kept : i <= k,
                         CHOOSE i \in kept : \A k \in kept : i >= k)

\* sub in str
Contains(str, sub) ==
    \E i \in 0..(Len(str) - Len(sub)) : \A j \in 1..Len(sub) : str[i + j] = sub[j]

TextAllSites == {"Run(SelectAll)", "GetTextFile", "Run(MoveDocBegin)"}
get_text_all_op(c0, F, T, answer) ==
    LET S0 == {check_initialization(c0, F, T)}
        S1 == {Calls(c, <<<<"Run(SelectAll)", "handle">>, <<"GetTextFile", "handle">>,
                          <<"Run(MoveDocBegin)", "handle">>>>, 1, F) : c \in S0}
        S2 == {Log(c, "info") : c \in S1}
        S3 == {Output(c, "success", "get_text_all: text", TextOrEmpty(answer)) : c \in S2}
    IN  One({ExceptOutput(c, "get_text_all: failed", TextReadFailed \o ErrorText) : c \in S3})

\* for _ in range(paragraph_index): hwp.HAction.Run("MoveParaDown")
RECURSIVE MoveParaDown(_, _, _)
MoveParaDown(c, n, F) ==
    IF n <= 0 \/ ~Live(c) THEN c
    ELSE One({MoveParaDown(d, n - 1, F) : d \in {HCall(c, "Run(MoveParaDown)", F)}})

ParagraphSites == {"Run(MoveDocBegin)", "Run(MoveParaDown)", "Run(MoveSelParaDown)",
                   "GetTextFile", "Run(Cancel)"}
get_paragraph_text_op(c0, F, T, paragraph_index, answer) ==
    LET S0 == {check_initialization(c0, F, T)}
        S1 == {HCall(c, "Run(MoveDocBegin)", F) : c \in S0}
        S2 == {MoveParaDown(c, paragraph_index, F) : c \in S1}
        S3 == {Calls(c, <<<<"Run(MoveSelParaDown)", "handle">>, <<"GetTextFile", "handle">>,
                          <<"Run(Cancel)", "handle">>>>, 1, F) : c \in S2}
        S4 == {Log(c, "info") : c \in S3}
        S5 == {Output(c, "success", "get_paragraph_text: text",
                      Strip(TextOrEmpty(answer))) : c \in S4}
    IN  One({ExceptOutput(c, "get_paragraph_text: failed", ParaReadFailed \o ErrorText) :
             c \in S5})

\* act = hwp.CreateAction("InsertText"); pset = act.CreateSet();
\* pset.SetItem("Text", text); act.Execute(pset)
InsertTextSites == {"CreateAction(InsertText)", "act.CreateSet", "pset.SetItem(Text)",
                    "act.Execute(InsertText)"}
InsertTextAction(c, text, F) ==
    LET S0 == {Calls(c, <<<<"CreateAction(InsertText)", "handle">>,
                          <<"act.CreateSet", "handle">>>>, 1, F)}
        S1 == {HCallArg(d, "pset.SetItem(Text)", text, F) : d \in S0}
    IN  One({HCallArg(d, "act.Execute(InsertText)", text, F) : d \in S1})

InsertTexts == {"hello", "1,000"}
Positions == {"current", "end"}
insert_text_op(c0, F, T, text, position) ==
    LET S0 == {check_initialization([c0 EXCEPT !.args = <<text, position>>], F, T)}
        S1 == {IF position = "current" THEN InsertTextAction(c, text, F) ELSE c : c \in S0}
        S2 == {Log(c, "info") : c \in S1}
        S3 == {Return(c, "success", "insert_text: ok", "", 0) : c \in S2}
    IN  One({Except(c, "insert_text: failed") : c \in S3})

HeaderFooterSites == {"Run(HeaderFooterEdit)", "Run(CloseEx)"} \cup InsertTextSites
insert_header_footer_op(c0, F, T, text, is_header) ==
    LET S0 == {check_initialization([c0 EXCEPT !.args = <<text, is_header>>], F, T)}
        S1 == {IF is_header THEN HCall(c, "Run(HeaderFooterEdit)", F)
                            ELSE HCall(c, "Run(HeaderFooterEdit)", F) : c \in S0}
        S2 == {InsertTextAction(c, text, F) : c \in S1}
        S3 == {HCall(c, "Run(CloseEx)", F) : c \in S2}
        S4 == {Log(c, "info") : c \in S3}
        S5 == {IF is_header
               THEN Return(c, "success", "insert_header_footer: header", "", 0)
               ELSE Return(c, "success", "insert_header_footer: footer", "", 0) : c \in S4}
    IN  One({Except(c, "insert_header_footer: failed") : c \in S5})

\* ---------------------------------------------------------------- actions
FailSets(sites) == {S \in SUBSET sites : Cardinality(S) <= MaxFailures}

\* Sites of lazy initialization matter only when it can run.
LazySites == IF is_initialized THEN {} ELSE InitSites
LazyTruthy == IF is_initialized THEN {} ELSE InitTruthy

\* The server answers one tool call at a time (mcp.run()): no call is being
\* answered, and no scan is in progress.
Idle == [op |-> "idle", ret |-> NoRet, raised |-> FALSE, logs |-> <<>>,
         calls |-> <<>>, after_quit |-> FALSE, out |-> <<>>, args |-> <<>>,
         after_switch |-> -1, pre |-> <<>>, before |-> NoContent]
Ready == last.op = "idle" /\ scan.pc = "off"

Start == [Ctx(hwp, is_initialized, current_document, docs) EXCEPT !.content = content]
Start2 == [Ctx(shadow.hwp, shadow.init, shadow.cur, shadow.docs) EXCEPT !.content = content]

\* differs: the one thing in which the second run differs from the first
NoShadow == [on |-> FALSE, hwp |-> None, init |-> FALSE, cur |-> None, docs |-> <<>>,
             ret |-> NoRet, raised |-> FALSE, logs |-> <<>>, calls |-> <<>>,
             differs |-> "none"]
NoScan == [pc |-> "off", text |-> <<>>, search |-> <<>>, start |-> 0, positions |-> <<>>]

\* The tool returns (c: the run, c2: the second run on the same inputs).
Finish(op, c, c2) ==
    /\ hwp' = c.hwp
    /\ is_initialized' = c.init
    /\ current_document' = c.cur
    /\ docs' = c.docs
    /\ just_quit' = (op = "quit_hwp" /\ c.ret.kind = "success")
    /\ content' = c.content
    /\ just_switched' = IF op = "switch_to_document" /\ c.ret.kind = "success"
                        THEN c.ret.n ELSE -1
    /\ last' = [op |-> op, ret |-> c.ret, raised |-> c.exc,
                logs |-> c.logs, calls |-> c.calls, after_quit |-> just_quit,
                out |-> c.out, args |-> c.args, after_switch |-> just_switched,
                pre |-> <<hwp, is_initialized, current_document>>, before |-> content]
    /\ shadow' = IF shadow.on
                 THEN [shadow EXCEPT !.hwp = c2.hwp, !.init = c2.init, !.cur = c2.cur,
                                     !.docs = c2.docs, !.ret = c2.ret, !.raised = c2.exc,
                                     !.logs = c2.logs, !.calls = c2.calls]
                 ELSE shadow
    /\ UNCHANGED scan

\* The documents the application holds when the controller is constructed.
DocLists(n) == UNION {[1..k -> DocPaths] : k \in 0..n}

FailIters == 1..MaxFailIter

\* AdvancedHwpController.__init__, and the application as it happens to be
Init ==
    /\ hwp = None
    /\ is_initialized = FALSE
    /\ current_document = None
    /\ docs \in DocLists(MaxInitDocs)
    /\ just_quit = FALSE
    /\ just_switched = -1
    /\ content = NoContent
    /\ last = Idle
    /\ shadow = NoShadow
    /\ scan = NoScan

initialize_hwp ==
    /\ Ready
    /\ \E F \in FailSets(InitSites), T \in SUBSET InitTruthy :
        \E c \in {initialize_hwp_op(Start, F, T)} :
        \E c2 \in {IF shadow.on THEN initialize_hwp_op(Start2, F, T) ELSE c} :
            Finish("initialize_hwp", c, c2)

get_running_hwp_documents ==
    /\ Ready
    /\ \E F \in FailSets(RunningSites) :
        \E c \in {get_running_hwp_documents_op(Start, F, {})} :
        \E c2 \in {IF shadow.on THEN get_running_hwp_documents_op(Start2, F, {}) ELSE c} :
            Finish("get_running_hwp_documents", c, c2)

connect_to_running_hwp ==
    /\ Ready
    /\ \E F \in FailSets(ConnectSites) :
        \E c \in {connect_to_running_hwp_op(Start, F, {})} :
        \E c2 \in {IF shadow.on THEN connect_to_running_hwp_op(Start2, F, {}) ELSE c} :
            Finish("connect_to_running_hwp", c, c2)

create_document ==
    /\ Ready
    /\ Len(docs) < MaxDocs
    /\ \E F \in FailSets(LazySites \cup {"Run(FileNew)"}), T \in SUBSET LazyTruthy :
        \E c \in {create_document_op(Start, F, T)} :
        \E c2 \in {IF shadow.on THEN create_document_op(Start2, F, T) ELSE c} :
            Finish("create_document", c, c2)

open_document ==
    /\ Ready
    /\ Len(docs) < MaxDocs
    /\ \E F \in FailSets(LazySites \cup OpenSites), T \in SUBSET (LazyTruthy \cup OpenTruthy),
          file_path \in FilePaths :
        \E c \in {open_document_op(Start, F, T, file_path)} :
        \E c2 \in {IF shadow.on THEN open_document_op(Start2, F, T, file_path) ELSE c} :
            Finish("open_document", c, c2)

close_all_documents ==
    /\ Ready
    /\ \E F \in FailSets(LazySites \cup CloseLoopSites), T \in SUBSET LazyTruthy,
          save_changes \in BOOLEAN, floor \in 0..1, failIter \in FailIters :
        \E c \in {close_all_documents_op(Start, F, T, save_changes, floor, failIter)} :
        \E c2 \in {IF shadow.on
                   THEN close_all_documents_op(Start2, F, T, save_changes, floor, failIter)
                   ELSE c} :
            Finish("close_all_documents", c, c2)

quit_hwp ==
    /\ Ready
    /\ \E F \in FailSets(LazySites \cup {"Quit"}), T \in SUBSET LazyTruthy :
        \E c \in {quit_hwp_op(Start, F, T)} :
        \E c2 \in {IF shadow.on THEN quit_hwp_op(Start2, F, T) ELSE c} :
            Finish("quit_hwp", c, c2)

find_and_replace ==
    /\ Ready
    /\ \E F \in FailSets(LazySites \cup ReplaceSites),
          T \in SUBSET (LazyTruthy \cup ReplaceTruthy), replace_all \in BOOLEAN :
        \E c \in {find_and_replace_op(Start, F, T, replace_all)} :
        \E c2 \in {IF shadow.on THEN find_and_replace_op(Start2, F, T, replace_all) ELSE c} :
            Finish("find_and_replace", c, c2)

get_document_info ==
    /\ Ready
    /\ \E F \in FailSets(LazySites \cup InfoSites), T \in SUBSET LazyTruthy :
        \E c \in {get_document_info_op(Start, F, T)} :
        \E c2 \in {IF shadow.on THEN get_document_info_op(Start2, F, T) ELSE c} :
            Finish("get_document_info", c, c2)

move_to_page ==
    /\ Ready
    /\ \E F \in FailSets(LazySites \cup GotoSites), T \in SUBSET LazyTruthy,
          page_number \in 0..(MaxPages + 1), total_pages \in 1..MaxPages :
        \E c \in {move_to_page_op(Start, F, T, page_number, total_pages)} :
        \E c2 \in {IF shadow.on
                   THEN move_to_page_op(Start2, F, T, page_number, total_pages) ELSE c} :
            Finish("move_to_page", c, c2)

set_automation_mode ==
    /\ Ready
    /\ \E F \in FailSets(LazySites \cup ModeSites), T \in SUBSET LazyTruthy,
          enabled \in BOOLEAN :
        \E c \in {set_automation_mode_op(Start, F, T, enabled)} :
        \E c2 \in {IF shadow.on THEN set_automation_mode_op(Start2, F, T, enabled) ELSE c} :
            Finish("set_automation_mode", c, c2)

\* The status string goes back to the client; the server waits for the next
\* tool call.
Respond ==
    /\ last.op # "idle"
    /\ last' = Idle
    /\ shadow' = IF shadow.on
                 THEN [shadow EXCEPT !.ret = NoRet, !.raised = FALSE, !.logs = <<>>,
                                     !.calls = <<>>]
                 ELSE shadow
    /\ UNCHANGED <<hwp, is_initialized, current_document, docs, just_quit, just_switched,
                 content,
                 scan>>

Next ==
    \/ initialize_hwp
    \/ get_running_hwp_documents
    \/ connect_to_running_hwp
    \/ create_document
    \/ open_document
    \/ close_all_documents
    \/ quit_hwp
    \/ find_and_replace
    \/ get_document_info
    \/ move_to_page
    \/ set_automation_mode
    \/ Respond

Spec == Init /\ [][Next]_vars

\* ----------------------------------------------------------- second run
\* The same controller and application, except that the second run starts
\* with a tracked document path (a file path); both runs then get the same
\* tool calls and the same answers from the external world.
InitShadow ==
    /\ hwp = None
    /\ is_initialized = FALSE
    /\ current_document = None
    /\ docs \in DocLists(MaxInitDocs)
    /\ just_quit = FALSE
    /\ just_switched = -1
    /\ content = NoContent
    /\ last = Idle
    /\ \E d \in FilePaths :
           shadow = [NoShadow EXCEPT !.on = TRUE, !.cur = d, !.docs = docs,
                                     !.differs = "current_document"]
    /\ scan = NoScan

SpecShadow == InitShadow /\ [][Next]_vars

\* ------------------------------------------------- find_text's scan loop
Alphabet == {"a", "b", "A"}
Strings(n) == UNION {[1..k -> Alphabet] : k \in 0..n}

\* str.lower()
LowerChar(ch) == IF ch = "A" THEN "a" ELSE ch
Lower(str) == [i \in 1..Len(str) |-> LowerChar(str[i])]

\* str.find(sub, start): the lowest 0-based index i >= start with
\* text[i : i + len(sub)] == sub, or -1
Find(text, sub, start) ==
    LET hits == {i \in start..(Len(text) - Len(sub)) :
                    \A j \in 1..Len(sub) : text[i + j] = sub[j]}
    IN  IF hits = {} THEN -1 ELSE CHOOSE i \in hits : \A k \in hits : i <= k

\* start = pos + 1
NextStartStay(pos) == pos
NextStart(pos) == pos + 1

\* find_text has read a non-empty full_text and enters   while True:
InitScan ==
    /\ hwp = HwpObject
    /\ is_initialized = TRUE
    /\ current_document = None
    /\ docs = <<"">>
    /\ just_quit = FALSE
    /\ just_switched = -1
    /\ content = NoContent
    /\ last = Idle
    /\ shadow = NoShadow
    /\ \E text \in Strings(MaxTextLen) \ {<<>>}, search \in Strings(MaxSearchLen) :
           scan = [pc |-> "loop", text |-> text, search |-> search, start |-> 0,
                   positions |-> <<>>]

ScanPos == Find(Lower(scan.text), Lower(scan.search), scan.start)

\* pos = text_lower.find(search_lower, start); positions.append(pos); start = pos + 1
ScanFound ==
    /\ scan.pc = "loop"
    /\ ScanPos # -1
    /\ scan' = [scan EXCEPT !.positions = Append(@, ScanPos), !.start = NextStart(ScanPos)]
    /\ UNCHANGED <<hwp, is_initialized, current_document, docs, just_quit, just_switched,
                 content,
                 last, shadow>>

\* if pos == -1: break
ScanBreak ==
    /\ scan.pc = "loop"
    /\ ScanPos = -1
    /\ scan' = [scan EXCEPT !.pc = "done"]
    /\ UNCHANGED <<hwp, is_initialized, current_document, docs, just_quit, just_switched,
                 content,
                 last, shadow>>

NextScan == ScanFound \/ ScanBreak

\* The loop is straight-line code of a single thread: it keeps taking steps.
SpecScan == InitScan /\ [][NextScan]_vars /\ WF_vars(NextScan)

\* ------------------------------------------- reading and inserting text
\* The controller as constructed; the second run gets the other is_header.
InitEdit ==
    /\ hwp = None
    /\ is_initialized = FALSE
    /\ current_document = None
    /\ docs \in DocLists(MaxInitDocs)
    /\ just_quit = FALSE
    /\ just_switched = -1
    /\ content = NoContent
    /\ last = Idle
    /\ shadow = [NoShadow EXCEPT !.on = TRUE, !.docs = docs, !.differs = "is_header"]
    /\ scan = NoScan

get_text_all ==
    /\ Ready
    /\ \E F \in FailSets(LazySites \cup TextAllSites), T \in SUBSET LazyTruthy,
          answer \in ReadAnswers :
        \E c \in {get_text_all_op(Start, F, T, answer)} :
        \E c2 \in {IF shadow.on THEN get_text_all_op(Start2, F, T, answer) ELSE c} :
            Finish("get_text_all", c, c2)

get_paragraph_text ==
    /\ Ready
    /\ \E F \in FailSets(LazySites \cup ParagraphSites), T \in SUBSET LazyTruthy,
          paragraph_index \in -1..MaxParaIndex, answer \in ReadAnswers :
        \E c \in {get_paragraph_text_op(Start, F, T, paragraph_index, answer)} :
        \E c2 \in {IF shadow.on
                   THEN get_paragraph_text_op(Start2, F, T, paragraph_index, answer)
                   ELSE c} :
            Finish("get_paragraph_text", c, c2)

insert_text ==
    /\ Ready
    /\ \E F \in FailSets(LazySites \cup InsertTextSites), T \in SUBSET LazyTruthy,
          text \in InsertTexts, position \in Positions :
        \E c \in {insert_text_op(Start, F, T, text, position)} :
        \E c2 \in {IF shadow.on THEN insert_text_op(Start2, F, T, text, position) ELSE c} :
            Finish("insert_text", c, c2)

insert_header_footer ==
    /\ Ready
    /\ \E F \in FailSets(LazySites \cup HeaderFooterSites), T \in SUBSET LazyTruthy,
          text \in InsertTexts, is_header \in BOOLEAN :
        \E c \in {insert_header_footer_op(Start, F, T, text, is_header)} :
        \E c2 \in {IF shadow.on
                   THEN insert_header_footer_op(Start2, F, T, text,
                            IF shadow.differs = "is_header" THEN ~is_header ELSE is_header)
                   ELSE c} :
            Finish("insert_header_footer", c, c2)

NextEdit ==
    \/ get_text_all
    \/ get_paragraph_text
    \/ insert_text
    \/ insert_header_footer
    \/ Respond

SpecEdit == InitEdit /\ [][NextEdit]_vars

\* ------------------------------------------------- switching documents
\* The characters of a document path: directory "A", separator, file "b".
PathText(path) == IF path = "a.hwp" THEN <<"A", "\\", "b">> ELSE <<>>

\* str.split("\\")[-1]
LastComponent(str) ==
    LET seps == {i \in 1..Len(str) : str[i] = "\\"}
    IN  IF seps = {} THEN str
        ELSE SubSeq(str, (CHOOSE i \in seps : \A k \in seps : i >= k) + 1, Len(str))

\* f"{i+1}"
IndexToken(i) == <<"1", "2", "3", "4">>[i + 1]

\* doc_name = doc_path.split("\\")[-1] if doc_path else f"<new document> {i+1}"
LoopDocName(path, i) ==
    IF PathText(path) = <<>> THEN <<"new", " ", IndexToken(i)>>
    ELSE LastComponent(PathText(path))

\* file_name.lower() in doc_name.lower() or file_name.lower() in doc_path.lower()
NameMatches(file_name, path, i) ==
    \/ Contains(Lower(LoopDocName(path, i)), Lower(file_name))
    \/ Contains(Lower(PathText(path)), Lower(file_name))

\* the loop without its break: the last matching document wins
RECURSIVE FindDocumentLast(_, _, _, _, _)
FindDocumentLast(c, i, n, file_name, F) ==
    IF i >= n \/ ~Live(c) THEN c
    ELSE One({FindDocumentLast(IF Live(d) /\ NameMatches(file_name, d.docs[i + 1], i)
                               THEN [d EXCEPT !.cnt = i] ELSE d, i + 1, n, file_name, F) :
              d \in {Calls(c, <<<<"XHwpDocuments.Item(i)", "local">>,
                                 <<"doc.Path", "local">>>>, 1, F)}})

\* for i in range(doc_count): doc = Item(i); ...; if <match>: found_index = i; break
\* (cnt holds found_index)
RECURSIVE FindDocument(_, _, _, _, _)
FindDocument(c, i, n, file_name, F) ==
    IF i >= n \/ ~Live(c) THEN c
    ELSE One({IF Live(d) /\ NameMatches(file_name, d.docs[i + 1], i)
              THEN [d EXCEPT !.cnt = i]
              ELSE FindDocument(d, i + 1, n, file_name, F) :
              d \in {Calls(c, <<<<"XHwpDocuments.Item(i)", "local">>,
                                 <<"doc.Path", "local">>>>, 1, F)}})

\* doc_name = found_doc.Path.split("\\")[-1] if found_doc.Path else <new document>
FoundDocName(path) ==
    IF PathText(path) = <<>> THEN <<"new">> ELSE LastComponent(PathText(path))

SwitchSites == {"CoInitialize", "XHwpDocuments.Count", "XHwpDocuments.Item(i)", "doc.Path",
                "Item(found_index).SetActive", "found_doc.Path"} \cup AcquireSites
switch_to_document_op(c0, F, T, file_name) ==
    LET S0 == {Call([c0 EXCEPT !.args = <<file_name>>], "CoInitialize", "module", F)}
        S1 == {AcquireHandle(c, F) : c \in S0}
        S2 == {LCall(c, "XHwpDocuments.Count", F) : c \in S1}
        S3 == {IF Len(c.docs) = 0
               THEN Return(c, "early", "switch_to_document: no open documents", "", 0)
               ELSE c : c \in S2}
        S4 == {FindDocument([c EXCEPT !.cnt = -1], 0, Len(c.docs), file_name, F) : c \in S3}
        S5 == {IF c.cnt = -1
               THEN Return(c, "early", "switch_to_document: not found", "", 0)
               ELSE c : c \in S4}
        S6 == {LCall(c, "Item(found_index).SetActive", F) : c \in S5}
        S7 == {IF Live(c)
               THEN [c EXCEPT !.hwp = HwpObject, !.init = TRUE, !.loc = "ctrl"]
               ELSE c : c \in S6}
        S8 == {One({IF Live(d) THEN [d EXCEPT !.cur = d.docs[d.cnt + 1]] ELSE d :
                    d \in {LCall(c, "found_doc.Path", F)}}) : c \in S7}
        S9 == {Log(c, "info") : c \in S8}
        S10 == {IF Live(c)
                THEN [c EXCEPT !.ret = [kind |-> "success", msg |-> "switch_to_document: ok",
                                        doc |-> "", n |-> c.cnt],
                               !.out = FoundDocName(c.docs[c.cnt + 1])]
                ELSE c : c \in S9}
    IN  One({Except(c, "switch_to_document: failed") : c \in S10})

\* the file name and path get_active_document_info shows for a document
UnsavedPath == <<"(", "new", "-", "unsaved", ")">>
DocumentInfo(path) ==
    IF PathText(path) = <<>> THEN <<<<"new">>, UnsavedPath>>
    ELSE <<LastComponent(PathText(path)), PathText(path)>>

ActiveInfoSites == {"CoInitialize", "XHwpDocuments.Count", "XHwpDocuments.Item(0)",
                    "active_doc.Path", "PageCount"} \cup AcquireSites
get_active_document_info_op(c0, F, T) ==
    LET S0 == {Call(c0, "CoInitialize", "module", F)}
        S1 == {AcquireHandle(c, F) : c \in S0}
        S2 == {LCall(c, "XHwpDocuments.Count", F) : c \in S1}
        S3 == {IF Len(c.docs) = 0
               THEN Return(c, "early", "get_active_document_info: no open documents", "", 0)
               ELSE c : c \in S2}
        S4 == {Calls(c, <<<<"XHwpDocuments.Item(0)", "local">>, <<"active_doc.Path", "local">>,
                          <<"PageCount", "local">>>>, 1, F) : c \in S3}
        S5 == {Log(c, "info") : c \in S4}
        S6 == {Output(c, "success", "get_active_document_info: info",
                      DocumentInfo(c.docs[1])) : c \in S5}
    IN  One({Except(c, "get_active_document_info: failed") : c \in S6})

\* The controller as constructed, and an application with open documents.
InitDocs ==
    /\ hwp = None
    /\ is_initialized = FALSE
    /\ current_document = None
    /\ docs \in DocLists(MaxDocs)
    /\ just_quit = FALSE
    /\ just_switched = -1
    /\ content = NoContent
    /\ last = Idle
    /\ shadow = NoShadow
    /\ scan = NoScan

switch_to_document ==
    /\ Ready
    /\ \E F \in FailSets(SwitchSites), file_name \in Strings(MaxNameLen) :
        \E c \in {switch_to_document_op(Start, F, {}, file_name)} :
        \E c2 \in {IF shadow.on THEN switch_to_document_op(Start2, F, {}, file_name) ELSE c} :
            Finish("switch_to_document", c, c2)

get_active_document_info ==
    /\ Ready
    /\ \E F \in FailSets(ActiveInfoSites) :
        \E c \in {get_active_document_info_op(Start, F, {})} :
        \E c2 \in {IF shadow.on THEN get_active_document_info_op(Start2, F, {}) ELSE c} :
            Finish("get_active_document_info", c, c2)

NextDocs ==
    \/ switch_to_document
    \/ get_active_document_info
    \/ Respond

SpecDocs == InitDocs /\ [][NextDocs]_vars

\* ------------------------------------------------------ tables as CSV
\* str.split(sep), sep one character
RECURSIVE Split(_, _)
Split(str, sep) ==
    LET at == {i \in 1..Len(str) : str[i] = sep}
    IN  IF at = {} THEN <<str>>
        ELSE LET i == CHOOSE k \in at : \A j \in at : k <= j
             IN  <<SubSeq(str, 1, i - 1)>> \o Split(SubSeq(str, i + 1, Len(str)), sep)

\* sep.join(parts)
RECURSIVE Join(_, _)
Join(parts, sep) ==
    IF parts = <<>> THEN <<>>
    ELSE IF Len(parts) = 1 THEN parts[1]
    ELSE parts[1] \o <<sep>> \o Join(Tail(parts), sep)

\* [t.strip() for t in table_text.split('\r\n') if t.strip()]
\* ("\n" stands for the line separator the application writes)
CellContents(table_text) ==
    IF table_text = <<>> THEN <<>>
    ELSE LET parts == Split(table_text, "\n")
         IN  SelectSeq([i \in 1..Len(parts) |-> Strip(parts[i])], LAMBDA t : t # <<>>)

\* cell.replace('"', '""')
RECURSIVE DoubleQuotes(_)
DoubleQuotes(cell) ==
    IF cell = <<>> THEN <<>>
    ELSE (IF Head(cell) = "\"" THEN <<"\"", "\"">> ELSE <<Head(cell)>>)
         \o DoubleQuotes(Tail(cell))

\* if ',' in cell or '"' in cell [or '\n' in cell]: cell = f'"{cell}"'
QuoteCell(cell) ==
    LET doubled == DoubleQuotes(cell)
    IN  IF \E i \in 1..Len(doubled) : doubled[i] \in {",", "\""}
        THEN <<"\"">> \o doubled \o <<"\"">>
        ELSE doubled

\* csv_lines, joined with line feeds ("LF")
CsvContent(rows, cols, cells) ==
    IF rows > 0 /\ cols > 0 /\ Len(cells) >= rows * cols
    THEN Join([r \in 1..rows |->
                  Join([k \in 1..cols |-> QuoteCell(cells[(r - 1) * cols + k])], ",")], "LF")
    ELSE Join([i \in 1..Len(cells) |-> QuoteCell(cells[i])], "LF")

\* What the application answers about a table: its Properties and the text
\* of its selected cells.
TableAnswers ==
    {[rows |-> 1, cols |-> 2, text |-> <<"x", "\n", " ", ",", "\n">>],
     [rows |-> 2, cols |-> 1, text |-> <<"\"", "\n", "\n", "y">>],
     [rows |-> 0, cols |-> 0, text |-> <<"x">>],
     [rows |-> 1, cols |-> 1, text |-> NoneText]}
CtrlIDs == {"secd", "tbl"}
CtrlLists(n) == UNION {[1..k -> CtrlIDs] : k \in 0..n}
OutputPaths == {None, "out.csv"}

\* The loop that matches the table counted before it: table_index counts from 0.
RECURSIVE TableLoopZeroBased(_, _, _, _)
TableLoopZeroBased(c, i, table_index, F) ==
    IF ~Live(c) \/ i > Len(c.content.ctrls) THEN c
    ELSE LET c1 == One({CallArg(d, "ctrl.CtrlID", "ctrl", i, F) : d \in {Try(c)}})
             c2 == One({IF Live(d) /\ d.content.ctrls[i] = "tbl"
                        THEN [d EXCEPT !.cnt = @ + 1,
                                       !.target = IF d.cnt = table_index THEN i ELSE 0]
                        ELSE d : d \in {c1}})
             c3 == One({IF d.target # 0 THEN d ELSE CallArg(d, "ctrl.Next", "ctrl", i, F) :
                        d \in {c2}})
         IN  One({IF d.exc \/ d.target # 0 THEN Swallow(c, d)
                  ELSE TableLoopZeroBased(Swallow(c, d), i + 1, table_index, F) :
                  d \in {c3}})

\* while ctrl: try: if ctrl.CtrlID == 'tbl': current_table += 1; if
\* current_table == table_index: target_ctrl = ctrl; break
\* ctrl = ctrl.Next   except: break
\* (i: the position of ctrl among the controls; cnt: current_table)
RECURSIVE TableLoop(_, _, _, _)
TableLoop(c, i, table_index, F) ==
    IF ~Live(c) \/ i > Len(c.content.ctrls) THEN c
    ELSE LET c1 == One({CallArg(d, "ctrl.CtrlID", "ctrl", i, F) : d \in {Try(c)}})
             c2 == One({IF Live(d) /\ d.content.ctrls[i] = "tbl"
                        THEN [d EXCEPT !.cnt = @ + 1,
                                       !.target = IF d.cnt + 1 = table_index THEN i ELSE 0]
                        ELSE d : d \in {c1}})
             c3 == One({IF d.target # 0 THEN d ELSE CallArg(d, "ctrl.Next", "ctrl", i, F) :
                        d \in {c2}})
         IN  One({IF d.exc \/ d.target # 0 THEN Swallow(c, d)
                  ELSE TableLoop(Swallow(c, d), i + 1, table_index, F) :
                  d \in {c3}})

\* try: tbl_set = target_ctrl.Properties; rows = ...; cols = ...  except: pass
TableProperties(c, answer, F) ==
    LET S0 == {CallArg(d, "target_ctrl.Properties", "ctrl", d.target, F) : d \in {Try(c)}}
        S1 == {Call(d, "tbl_set.Item(RowCount)", "ctrl", F) : d \in S0}
        S2 == {IF Live(d) THEN [d EXCEPT !.rows = answer.rows] ELSE d : d \in S1}
        S3 == {Call(d, "tbl_set.Item(ColCount)", "ctrl", F) : d \in S2}
        S4 == {IF Live(d) THEN [d EXCEPT !.cols = answer.cols] ELSE d : d \in S3}
    IN  One({Swallow(c, d) : d \in S4})

ExtractSites == {"target_ctrl.GetAnchorPos", "SetPosBySet", "Run(ShapeObjTableSelCell)",
                 "Run(TableColBegin)", "Run(TableRowBegin)", "Run(TableCellBlockExtendAll)",
                 "GetTextFile", "Run(Cancel)"}
\* try: <select the table's cells, read them>  except Exception as e:
\*     logger.warning(...); return f"<extraction failed>: {e}"
TableCells(c, answer, F) ==
    LET S0 == {CallArg(d, "target_ctrl.GetAnchorPos", "ctrl", d.target, F) : d \in {Try(c)}}
        S1 == {Calls(d, <<<<"SetPosBySet", "handle">>, <<"Run(ShapeObjTableSelCell)", "handle">>,
                          <<"Run(TableColBegin)", "handle">>, <<"Run(TableRowBegin)", "handle">>,
                          <<"Run(TableCellBlockExtendAll)", "handle">>,
                          <<"GetTextFile", "handle">>>>, 1, F) : d \in S0}
        S2 == {IF Live(d) THEN [d EXCEPT !.lines = CellContents(TextOrEmpty(answer.text))]
               ELSE d : d \in S1}
        S3 == {HCall(d, "Run(Cancel)", F) : d \in S2}
    IN  One({IF Live(c) /\ d.exc
             THEN Return(Log([d EXCEPT !.exc = FALSE, !.inner = c.inner], "warning"),
                         "early", "get_table_as_csv: extraction failed", "", 0)
             ELSE Swallow(c, d) : d \in S3})

TableSites == {"Run(MoveDocBegin)", "HeadCtrl", "ctrl.CtrlID", "ctrl.Next",
               "target_ctrl.Properties", "tbl_set.Item(RowCount)", "tbl_set.Item(ColCount)",
               "open", "f.write"} \cup ExtractSites
get_table_as_csv_op(c0, F, T, table_index, output_path, answer) ==
    LET S0 == {check_initialization([c0 EXCEPT !.args = <<table_index, output_path>>], F, T)}
        S1 == {Calls(c, <<<<"Run(MoveDocBegin)", "handle">>, <<"HeadCtrl", "handle">>>>, 1, F) :
               c \in S0}
        S2 == {TableLoop(c, 1, table_index, F) : c \in S1}
        S3 == {IF Live(c) /\ c.target = 0
               THEN Return(c, "early", "get_table_as_csv: not found", "", c.cnt)
               ELSE c : c \in S2}
        S4 == {TableProperties(c, answer, F) : c \in S3}
        S5 == {TableCells(c, answer, F) : c \in S4}
        S6 == {IF Live(c) THEN [c EXCEPT !.out = CsvContent(c.rows, c.cols, c.lines)]
               ELSE c : c \in S5}
        S7 == {IF output_path # None
               THEN Calls(c, <<<<"open", "module">>, <<"f.write", "module">>>>, 1, F)
               ELSE c : c \in S6}
        S8 == {Log(c, "info") : c \in S7}
        S9 == {IF output_path # None
               THEN Return(c, "success", "get_table_as_csv: saved", "", Len(c.lines))
               ELSE Return(c, "success", "get_table_as_csv: content", "", 0) : c \in S8}
    IN  One({Except(c, "get_table_as_csv: failed") : c \in S9})

\* At most one call site fails in a tool call.
SingleFailure(sites) == {{}} \cup {{x} : x \in sites}

\* The controller as constructed, and a document with some controls.
InitTable ==
    /\ hwp = None
    /\ is_initialized = FALSE
    /\ current_document = None
    /\ docs = <<>>
    /\ just_quit = FALSE
    /\ just_switched = -1
    /\ \E l \in CtrlLists(MaxCtrls) : content = [text |-> <<>>, ctrls |-> l]
    /\ last = Idle
    /\ shadow = NoShadow
    /\ scan = NoScan

get_table_as_csv ==
    /\ Ready
    /\ \E F \in SingleFailure(TableSites \cup LazySites), T \in SUBSET LazyTruthy,
          table_index \in (-1)..(MaxCtrls + 1), output_path \in OutputPaths,
          answer \in TableAnswers :
        \E c \in {get_table_as_csv_op(Start, F, T, table_index, output_path, answer)} :
            Finish("get_table_as_csv", c, c)

NextTable ==
    \/ get_table_as_csv
    \/ Respond

SpecTable == InitTable /\ [][NextTable]_vars

\* ------------------------------------------- inserting next to a text
\* The application's RepeatFind: the next occurrence of search_text at or
\* behind the caret (sel[2]); it becomes the selection.
RepeatFind(c, search_text, F) ==
    LET pos == Find(c.content.text, search_text, c.sel[2])
        S0 == {Calls(c, <<<<"GetDefault(RepeatFind)", "handle">>,
                          <<"HFindReplace.FindString=", "handle">>>>, 1, F)}
        S1 == {HCallRes(d, "Execute(RepeatFind)", search_text, pos # -1, F) : d \in S0}
    IN  One({IF Live(d) /\ pos # -1
             THEN [d EXCEPT !.val = TRUE, !.sel = <<pos, pos + Len(search_text)>>]
             ELSE [d EXCEPT !.val = FALSE] : d \in S1})

\* for i in range(nth_occurrence): <RepeatFind>; if not result: return ...;
\* found_count = i + 1
RECURSIVE FindNth(_, _, _, _, _)
FindNth(c, i, nth_occurrence, search_text, F) ==
    IF ~Live(c) \/ i >= nth_occurrence THEN c
    ELSE One({IF Live(d) /\ ~d.val
              THEN Return(d, "early", IF i = 0 THEN "insert: not found"
                                              ELSE "insert: found fewer", "", i)
              ELSE FindNth(IF Live(d) THEN [d EXCEPT !.cnt = i + 1] ELSE d,
                           i + 1, nth_occurrence, search_text, F) :
              d \in {RepeatFind(c, search_text, F)}})

\* The application's InsertText at the caret.
InsertAt(text, caret, new_text) ==
    SubSeq(text, 1, caret) \o new_text \o SubSeq(text, caret + 1, Len(text))

InsertRelativeSites == {"Run(MoveDocBegin)", "GetDefault(RepeatFind)",
                        "HFindReplace.FindString=", "Execute(RepeatFind)",
                        "Run(MoveSelRight)", "Run(MoveSelLeft)"} \cup InsertTextSites
\* The body insert_after_text and insert_before_text share; move: the caret
\* action that follows the search.
InsertRelative(c0, F, T, search_text, new_text, nth_occurrence, move) ==
    LET S0 == {check_initialization([c0 EXCEPT !.args = <<search_text, new_text,
                                                         nth_occurrence>>], F, T)}
        S1 == {IF search_text = <<>>
               THEN Return(c, "early", "insert: no search text", "", 0)
               ELSE c : c \in S0}
        S2 == {One({IF Live(d) THEN [d EXCEPT !.sel = <<0, 0>>] ELSE d :
                    d \in {HCall(c, "Run(MoveDocBegin)", F)}}) : c \in S1}
        S3 == {FindNth(c, 0, nth_occurrence, search_text, F) : c \in S2}
        S4 == {One({IF Live(d)
                    THEN [d EXCEPT !.target = IF move = "Run(MoveSelRight)"
                                              THEN d.sel[2] ELSE d.sel[1]]
                    ELSE d : d \in {HCall(c, move, F)}}) : c \in S3}
        S5 == {One({IF Live(d)
                    THEN [d EXCEPT !.content.text = InsertAt(@, d.target, new_text)]
                    ELSE d : d \in {InsertTextAction(c, new_text, F)}}) : c \in S4}
        S6 == {Log(c, "info") : c \in S5}
    IN  One({Return(c, "success", "insert: ok", "", c.cnt) : c \in S6})

insert_after_text_op(c0, F, T, search_text, new_text, nth_occurrence) ==
    Except(InsertRelative(c0, F, T, search_text, new_text, nth_occurrence,
                          "Run(MoveSelRight)"), "insert_after_text: failed")

insert_before_text_op(c0, F, T, search_text, new_text, nth_occurrence) ==
    Except(InsertRelative(c0, F, T, search_text, new_text, nth_occurrence,
                          "Run(MoveSelLeft)"), "insert_before_text: failed")

NewTexts == {<<"N">>}

\* The controller as constructed, and a document with some text.
InitInsert ==
    /\ hwp = None
    /\ is_initialized = FALSE
    /\ current_document = None
    /\ docs = <<>>
    /\ just_quit = FALSE
    /\ just_switched = -1
    /\ \E t \in Strings(MaxBodyLen) : content = [text |-> t, ctrls |-> <<>>]
    /\ last = Idle
    /\ shadow = NoShadow
    /\ scan = NoScan

insert_after_text ==
    /\ Ready
    /\ Len(content.text) < MaxGrownLen
    /\ \E F \in SingleFailure(InsertRelativeSites \cup LazySites), T \in SUBSET LazyTruthy,
          search_text \in Strings(1), new_text \in NewTexts,
          nth_occurrence \in (-1)..MaxNth :
        \E c \in {insert_after_text_op(Start, F, T, search_text, new_text, nth_occurrence)} :
            Finish("insert_after_text", c, c)

insert_before_text ==
    /\ Ready
    /\ Len(content.text) < MaxGrownLen
    /\ \E F \in SingleFailure(InsertRelativeSites \cup LazySites), T \in SUBSET LazyTruthy,
          search_text \in Strings(1), new_text \in NewTexts,
          nth_occurrence \in (-1)..MaxNth :
        \E c \in {insert_before_text_op(Start, F, T, search_text, new_text, nth_occurrence)} :
            Finish("insert_before_text", c, c)

NextInsert ==
    \/ insert_after_text
    \/ insert_before_text
    \/ Respond

SpecInsert == InitInsert /\ [][NextInsert]_vars

\* ------------------------------------------------------ batch replace
\* str.split(sep, 1), sep a string
SplitFirst(str, sep) ==
    LET at == {k \in 0..(Len(str) - Len(sep)) : \A j \in 1..Len(sep) : str[k + j] = sep[j]}
    IN  IF at = {} THEN <<str>>
        ELSE LET k == CHOOSE i \in at : \A j \in at : i <= j
             IN  <<SubSeq(str, 1, k), SubSeq(str, k + Len(sep) + 1, Len(str))>>

\* [p.strip() for p in replacements.split(',')]
Pairs(str) == LET parts == Split(str, ",") IN [i \in 1..Len(parts) |-> Strip(parts[i])]

\* The application's AllReplace: every occurrence, left to right.
RECURSIVE ReplaceAll(_, _, _)
ReplaceAll(text, find, repl) ==
    IF find = <<>> \/ Len(text) < Len(find) THEN text
    ELSE IF SubSeq(text, 1, Len(find)) = find
    THEN repl \o ReplaceAll(SubSeq(text, Len(find) + 1, Len(text)), find, repl)
    ELSE <<Head(text)>> \o ReplaceAll(Tail(text), find, repl)

\* MoveDocBegin; AllReplace of find_text by replace_text over the document;
\* val: execute_result
AllReplace(c, find_text, replace_text, F) ==
    LET S0 == {Calls(c, <<<<"Run(MoveDocBegin)", "handle">>,
                          <<"GetDefault(AllReplace)", "handle">>,
                          <<"HFindReplace.FindString=", "handle">>,
                          <<"HFindReplace.ReplaceString=", "handle">>,
                          <<"HFindReplace.ReplaceMode=", "handle">>>>, 1, F)}
        S1 == {HCallRes(d, "Execute(AllReplace)", <<find_text, replace_text, d.content.text>>,
                        Contains(d.content.text, find_text), F) : d \in S0}
    IN  One({IF Live(d)
             THEN [d EXCEPT !.val = Contains(d.content.text, find_text),
                            !.content.text = ReplaceAll(@, find_text, replace_text)]
             ELSE d : d \in S1})

Arrow == <<"-", ">">>
BatchLine(kind, pair) == [kind |-> kind, pair |-> pair]

\* The loop body without the test for an empty search text.
BatchPairNoEmptyCheck(c, pair, F) ==
    IF ~Live(c) THEN c
    ELSE IF ~Contains(pair, <<"-", ">">>)
    THEN [c EXCEPT !.lines = Append(@, [kind |-> "!", pair |-> pair])]
    ELSE LET parts == SplitFirst(pair, <<"-", ">">>)
             find_text == Strip(parts[1])
             replace_text == Strip(parts[2])
         IN  One({IF ~Live(d) THEN d
                  ELSE IF d.val
                  THEN [d EXCEPT !.lines = Append(@, [kind |-> "O", pair |-> pair]),
                                 !.cnt = @ + 1]
                  ELSE [d EXCEPT !.lines = Append(@, [kind |-> "-", pair |-> pair])] :
                  d \in {AllReplace(c, find_text, replace_text, F)}})

\* for pair in pairs: <body>
BatchPair(c, pair, F) ==
    IF ~Live(c) THEN c
    ELSE IF ~Contains(pair, Arrow)
    THEN [c EXCEPT !.lines = Append(@, BatchLine("!", pair))]
    ELSE LET parts == SplitFirst(pair, Arrow)
             find_text == Strip(parts[1])
             replace_text == Strip(parts[2])
         IN  IF find_text = <<>>
             THEN [c EXCEPT !.lines = Append(@, BatchLine("!", <<>>))]
             ELSE One({IF ~Live(d) THEN d
                       ELSE IF d.val
                       THEN [d EXCEPT !.lines = Append(@, BatchLine("O", pair)),
                                      !.cnt = @ + 1]
                       ELSE [d EXCEPT !.lines = Append(@, BatchLine("-", pair))] :
                       d \in {AllReplace(c, find_text, replace_text, F)}})

RECURSIVE BatchLoop(_, _, _, _)
BatchLoop(c, pairs, i, F) ==
    IF i > Len(pairs) THEN c
    ELSE One({BatchLoop(d, pairs, i + 1, F) : d \in {BatchPair(c, pairs[i], F)}})

\* f"<header> {len(pairs)} ... {total_replaced} ..." + '\n'.join(results)
Report(total, done, lines) == [total |-> total, done |-> done, lines |-> lines]

BatchSites == {"Run(MoveDocBegin)", "GetDefault(AllReplace)", "HFindReplace.FindString=",
               "HFindReplace.ReplaceString=", "HFindReplace.ReplaceMode=",
               "Execute(AllReplace)"}
batch_replace_op(c0, F, T, replacements) ==
    LET S0 == {check_initialization([c0 EXCEPT !.args = <<replacements>>], F, T)}
        S1 == {BatchLoop(c, Pairs(replacements), 1, F) : c \in S0}
        S2 == {Log(c, "info") : c \in S1}
        S3 == {IF Live(c)
               THEN [c EXCEPT !.ret = [kind |-> "success", msg |-> "batch_replace: result",
                                       doc |-> "", n |-> c.cnt],
                              !.out = Report(Len(Pairs(replacements)), c.cnt, c.lines)]
               ELSE c : c \in S2}
    IN  One({Except(c, "batch_replace: failed") : c \in S3})

\* Pieces of a replacements argument: "a->b", " b->a ", "a", "->b"
BatchPieces == {<<"a", "-", ">", "b">>, <<" ", "b", "-", ">", "a", " ">>, <<"a">>,
                <<"-", ">", "b">>}
\* the arguments made of up to n pieces, joined with commas
Joined(pieces, n) == UNION {{Join(l, ",") : l \in [1..k -> pieces]} : k \in 1..n}

\* The controller as constructed, and a document with some text.
InitBatch ==
    /\ hwp = None
    /\ is_initialized = FALSE
    /\ current_document = None
    /\ docs = <<>>
    /\ just_quit = FALSE
    /\ just_switched = -1
    /\ \E t \in Strings(MaxBatchLen) : content = [text |-> t, ctrls |-> <<>>]
    /\ last = Idle
    /\ shadow = NoShadow
    /\ scan = NoScan

batch_replace ==
    /\ Ready
    /\ \E F \in SingleFailure(BatchSites \cup LazySites), T \in SUBSET LazyTruthy,
          replacements \in Joined(BatchPieces, MaxPairs) :
        \E c \in {batch_replace_op(Start, F, T, replacements)} :
            Finish("batch_replace", c, c)

NextBatch ==
    \/ batch_replace
    \/ Respond

SpecBatch == InitBatch /\ [][NextBatch]_vars

\* ------------------------------------------------------ fill template
\* placeholders = ["{{" + field_name + "}}", "{" + field_name + "}", ...]
Placeholders(field_name) ==
    << <<"{", "{">> \o field_name \o <<"}", "}">>,
       <<"{">> \o field_name \o <<"}">>,
       <<"[">> \o field_name \o <<"]">>,
       <<"<">> \o field_name \o <<">">>,
       <<"$">> \o field_name \o <<"$">>,
       field_name >>

\* for placeholder in placeholders: <AllReplace>; if execute_result: ...; break
\* (brk: replaced)
RECURSIVE PlaceholderLoop(_, _, _, _, _)
PlaceholderLoop(c, placeholders, j, field_value, F) ==
    IF ~Live(c) \/ j > Len(placeholders) THEN c
    ELSE One({IF Live(d) /\ d.val
              THEN [d EXCEPT !.lines = Append(@, BatchLine("O", placeholders[j])),
                             !.cnt = @ + 1, !.brk = TRUE]
              ELSE PlaceholderLoop(d, placeholders, j + 1, field_value, F) :
              d \in {AllReplace(c, placeholders[j], field_value, F)}})

\* for pair in pairs: <body>
FillPair(c, pair, F) ==
    IF ~Live(c) THEN c
    ELSE IF ~Contains(pair, <<"=">>)
    THEN [c EXCEPT !.lines = Append(@, BatchLine("!", pair))]
    ELSE LET parts == SplitFirst(pair, <<"=">>)
             field_name == Strip(parts[1])
             field_value == Strip(parts[2])
         IN  IF field_name = <<>>
             THEN [c EXCEPT !.lines = Append(@, BatchLine("!", <<>>))]
             ELSE One({IF Live(d) /\ ~d.brk
                       THEN [d EXCEPT !.lines = Append(@, BatchLine("-", field_name))]
                       ELSE d :
                       d \in {PlaceholderLoop([c EXCEPT !.brk = FALSE],
                                              Placeholders(field_name), 1, field_value, F)}})

RECURSIVE FillLoop(_, _, _, _)
FillLoop(c, pairs, i, F) ==
    IF i > Len(pairs) THEN c
    ELSE One({FillLoop(d, pairs, i + 1, F) : d \in {FillPair(c, pairs[i], F)}})

fill_template_op(c0, F, T, field_values) ==
    LET S0 == {check_initialization([c0 EXCEPT !.args = <<field_values>>], F, T)}
        S1 == {FillLoop(c, Pairs(field_values), 1, F) : c \in S0}
        S2 == {Log(c, "info") : c \in S1}
        S3 == {IF Live(c)
               THEN [c EXCEPT !.ret = [kind |-> "success", msg |-> "fill_template: result",
                                       doc |-> "", n |-> c.cnt],
                              !.out = Report(Len(Pairs(field_values)), c.cnt, c.lines)]
               ELSE c : c \in S2}
    IN  One({Except(c, "fill_template: failed") : c \in S3})

\* Fields in the documented format "name1=value1, name2=value2", the value
\* "1,0" standing for the documented "1,000,000".
FieldNames == {<<"f">>, <<"g">>}
FieldValues == {<<"v">>, <<"1", ",", "0">>}
Fields == [name : FieldNames, value : FieldValues]
FieldLists(n) == UNION {[1..k -> Fields] : k \in 1..n}
RECURSIVE Format(_)
Format(fields) ==
    IF fields = <<>> THEN <<>>
    ELSE fields[1].name \o <<"=">> \o fields[1].value
         \o (IF Len(fields) = 1 THEN <<>> ELSE <<",", " ">> \o Format(Tail(fields)))

\* Templates: "{f}", "{{f}} [g]", and a document without fields.
TemplateTexts == {<<"{", "f", "}">>,
                  <<"{", "{", "f", "}", "}", " ", "[", "g", "]">>,
                  <<"x">>}

InitTemplate ==
    /\ hwp = None
    /\ is_initialized = FALSE
    /\ current_document = None
    /\ docs = <<>>
    /\ just_quit = FALSE
    /\ just_switched = -1
    /\ \E t \in TemplateTexts : content = [text |-> t, ctrls |-> <<>>]
    /\ last = Idle
    /\ shadow = NoShadow
    /\ scan = NoScan

fill_template ==
    /\ Ready
    /\ \E F \in SingleFailure(BatchSites \cup LazySites), T \in SUBSET LazyTruthy,
          fields \in FieldLists(MaxFields) :
        \E c \in {fill_template_op(Start, F, T, Format(fields))} :
            Finish("fill_template", c, c)

NextTemplate ==
    \/ fill_template
    \/ Respond

SpecTemplate == InitTemplate /\ [][NextTemplate]_vars

\* ------------------------------------------------ connecting by window
\* Top-level windows: "A.hwp" of another class, "b" of a Hwp class, "a" of
\* another program, and an invisible "a.hwp" of a Hwp class. ".hwp" is the
\* file suffix as one character; hwp_class: 'Hwp' in class_name.
WindowKinds ==
    {[title |-> <<"A", ".hwp">>, hwp_class |-> FALSE, visible |-> TRUE],
     [title |-> <<"b">>, hwp_class |-> TRUE, visible |-> TRUE],
     [title |-> <<"a">>, hwp_class |-> FALSE, visible |-> TRUE],
     [title |-> <<"a", ".hwp">>, hwp_class |-> TRUE, visible |-> FALSE]}
WindowLists(n) == UNION {[1..k -> WindowKinds] : k \in 0..n}

\* if 'Hwp' in class_name or <Hangul> in window_text or window_text.endswith('.hwp')
\* ("H" stands for the word Hangul in a title)
IsHwpWindow(w) ==
    \/ w.hwp_class
    \/ Contains(w.title, <<"H">>)
    \/ (w.title # <<>> /\ w.title[Len(w.title)] = ".hwp")

\* enum_windows_callback over EnumWindows: the handles (positions in the
\* enumeration) of the windows kept in hwp_windows, in order
HwpWindows(windows) ==
    SelectSeq([i \in 1..Len(windows) |-> i],
              LAMBDA i : windows[i].visible /\ IsHwpWindow(windows[i]))

\* The search that keeps the last window whose title matches.
TargetWindowLast(windows, hwp_windows, search_text) ==
    LET hits == {k \in 1..Len(hwp_windows) :
                    Contains(Lower(windows[hwp_windows[k]].title), Lower(search_text))}
    IN  IF hits = {} THEN 0 ELSE hwp_windows[CHOOSE k \in hits : \A j \in hits : k >= j]

\* for win in hwp_windows: if search_text.lower() in win['title'].lower():
\*     target_window = win; break            (0: target_window is None)
TargetWindow(windows, hwp_windows, search_text) ==
    LET hits == {k \in 1..Len(hwp_windows) :
                    Contains(Lower(windows[hwp_windows[k]].title), Lower(search_text))}
    IN  IF hits = {} THEN 0 ELSE hwp_windows[CHOOSE k \in hits : \A j \in hits : k <= j]

\* try: SetForegroundWindow(hwnd)
\* except: try: BringWindowToTop(hwnd); ShowWindow(hwnd, SW_SHOW)  except: pass
ToForeground(c, hwnd, F) ==
    LET S0 == {CallArg(d, "SetForegroundWindow", "module", hwnd, F) : d \in {Try(c)}}
        S1 == {IF Live(c) /\ d.exc
               THEN One({Swallow(c, f) :
                         f \in {One({CallArg(e, "ShowWindow(SW_SHOW)", "module", hwnd, F) :
                                     e \in {CallArg([d EXCEPT !.exc = FALSE],
                                                    "BringWindowToTop", "module", hwnd, F)}})}})
               ELSE Swallow(c, d) : d \in S0}
    IN  One(S1)

\* try: hwp_controller.hwp = GetActiveObject(...)
\* except: hwp_controller.hwp = Dispatch(...)
ActiveOrNewObject(c, F) ==
    LET S0 == {Call(Try(c), "GetActiveObject", "module", F)}
        S1 == {IF Live(c) /\ d.exc
               THEN Call([d EXCEPT !.exc = FALSE, !.inner = c.inner], "Dispatch", "module", F)
               ELSE Swallow(c, d) : d \in S0}
    IN  One({IF Live(d) THEN [d EXCEPT !.hwp = HwpObject, !.loc = "ctrl"] ELSE d : d \in S1})

WindowSites == {"CoInitialize", "EnumWindows", "IsIconic", "ShowWindow(SW_RESTORE)",
                "SetForegroundWindow", "BringWindowToTop", "ShowWindow(SW_SHOW)", "sleep",
                "GetActiveObject", "Dispatch", "XHwpDocuments.Count",
                "XHwpDocuments.Item(0)", "current_doc.Path"}
WindowTruthy == {"IsIconic"}
connect_to_hwp_window_op(c0, F, T, search_text, windows) ==
    LET hwp_windows == HwpWindows(windows)
        S0 == {Calls([c0 EXCEPT !.args = <<search_text, windows>>],
                     <<<<"CoInitialize", "module">>, <<"EnumWindows", "module">>>>, 1, F)}
        S1 == {IF hwp_windows = <<>>
               THEN Return(c, "early", "connect_to_hwp_window: no window", "", 0)
               ELSE c : c \in S0}
        S2 == {IF Live(c)
               THEN [c EXCEPT !.target = TargetWindow(windows, hwp_windows, search_text)]
               ELSE c : c \in S1}
        S3 == {IF c.target = 0
               THEN Return(c, "early", "connect_to_hwp_window: not found", "", 0)
               ELSE c : c \in S2}
        S4 == {CallArg(c, "IsIconic", "module", c.target, F) : c \in S3}
        S5 == {IF "IsIconic" \in T
               THEN CallArg(c, "ShowWindow(SW_RESTORE)", "module", c.target, F)
               ELSE c : c \in S4}
        S6 == {ToForeground(c, c.target, F) : c \in S5}
        S7 == {Call(c, "sleep", "module", F) : c \in S6}
        S8 == {ActiveOrNewObject(c, F) : c \in S7}
        S9 == {IF Live(c) THEN [c EXCEPT !.init = TRUE] ELSE c : c \in S8}
        S10 == {HCall(c, "XHwpDocuments.Count", F) : c \in S9}
        S11 == {IF Live(c) /\ Len(c.docs) > 0
                THEN One({IF Live(d) THEN [d EXCEPT !.cur = PathOrLabel(d.docs[1])] ELSE d :
                          d \in {Calls(c, <<<<"XHwpDocuments.Item(0)", "handle">>,
                                             <<"current_doc.Path", "handle">>>>, 1, F)}})
                ELSE c : c \in S10}
        S12 == {Log(c, "info") : c \in S11}
        S13 == {IF Live(c)
                THEN [c EXCEPT !.ret = [kind |-> "success", msg |-> "connect_to_hwp_window: ok",
                                        doc |-> "", n |-> Len(c.docs)],
                               !.out = windows[c.target].title]
                ELSE c : c \in S12}
    IN  One({Except(c, "connect_to_hwp_window: failed") : c \in S13})

\* The controller as constructed, and an application with some documents.
InitWindow ==
    /\ hwp = None
    /\ is_initialized = FALSE
    /\ current_document = None
    /\ docs \in DocLists(MaxInitDocs)
    /\ just_quit = FALSE
    /\ just_switched = -1
    /\ content = NoContent
    /\ last = Idle
    /\ shadow = NoShadow
    /\ scan = NoScan

connect_to_hwp_window ==
    /\ Ready
    /\ \E F \in SingleFailure(WindowSites), T \in SUBSET WindowTruthy,
          search_text \in Strings(MaxNameLen), windows \in WindowLists(MaxWindows) :
        \E c \in {connect_to_hwp_window_op(Start, F, T, search_text, windows)} :
            Finish("connect_to_hwp_window", c, c)

NextWindow ==
    \/ connect_to_hwp_window
    \/ Respond

SpecWindow == InitWindow /\ [][NextWindow]_vars

\* ------------------------------------------------------------ find_text
\* Characters of a document: "a", "I" (U+0130, the capital I with a dot,
\* whose lower case is the two characters "i" and a combining dot), and the
\* two characters of a line separator.
FindAlphabet == {"a", "I", "\r", "\n"}
FindTexts == UNION {[1..k -> FindAlphabet] : k \in 0..MaxFindLen}
FindSearches == {<<>>, <<"a">>, <<"A">>, <<"a", "a">>, <<"\r", "\n">>}

\* str.lower(), character by character
LowerOf(ch) ==
    IF ch = "A" THEN <<"a">>
    ELSE IF ch = "I" THEN <<"i", "dot">>
    ELSE <<ch>>
RECURSIVE LowerStr(_)
LowerStr(str) == IF str = <<>> THEN <<>> ELSE LowerOf(Head(str)) \o LowerStr(Tail(str))

\* while True: pos = text_lower.find(search_lower, start); if pos == -1: break;
\* positions.append(pos); start = pos + 1
RECURSIVE FindPositions(_, _, _)
FindPositions(text_lower, search_lower, start) ==
    LET pos == Find(text_lower, search_lower, start)
    IN  IF pos = -1 THEN <<>>
        ELSE <<pos>> \o FindPositions(text_lower, search_lower, NextStart(pos))

\* str.split(sep), sep a string
RECURSIVE SplitOn(_, _)
SplitOn(str, sep) ==
    LET parts == SplitFirst(str, sep)
    IN  IF Len(parts) = 1 THEN parts ELSE <<parts[1]>> \o SplitOn(parts[2], sep)

\* for idx, line in enumerate(lines): line_end = current_pos + len(line);
\* if current_pos <= pos < line_end + 2: line_num = idx + 1; break
\* current_pos = line_end + 2            (idx counts from 1; 0: line_num stays 0)
RECURSIVE LineNum(_, _, _, _)
LineNum(lines, idx, current_pos, pos) ==
    IF idx > Len(lines) THEN 0
    ELSE LET line_end == current_pos + Len(lines[idx])
         IN  IF current_pos <= pos /\ pos < line_end + 2 THEN idx
             ELSE LineNum(lines, idx + 1, line_end + 2, pos)

PageLines == 50
ContextWidth == 50

\* str[from:to] for 0 <= from
Slice(str, from, to) == SubSeq(str, from + 1, IF to < Len(str) THEN to ELSE Len(str))

\* context_display
ContextDisplay(full_text, search_text, pos) ==
    LET context_start == IF pos - ContextWidth > 0 THEN pos - ContextWidth ELSE 0
        context_end == IF Len(full_text) < pos + Len(search_text) + ContextWidth
                       THEN Len(full_text) ELSE pos + Len(search_text) + ContextWidth
        context == ReplaceAll(Slice(full_text, context_start, context_end),
                              <<"\r", "\n">>, <<" ">>)
        highlight_pos == pos - context_start
    IN  Slice(context, 0, highlight_pos) \o <<"[">> \o search_text \o <<"]">>
        \o Slice(context, highlight_pos + Len(search_text), Len(context))

\* results: one entry per position (pos is kept beside what the text shows)
FindResults(full_text, search_text, positions, show_context) ==
    LET lines == SplitOn(full_text, <<"\r", "\n">>)
    IN  [i \in 1..Len(positions) |->
            LET line_num == LineNum(lines, 1, 0, positions[i])
            IN  [i |-> i, pos |-> positions[i], line |-> line_num,
                 page |-> (line_num \div PageLines) + 1,
                 context |-> IF show_context
                             THEN ContextDisplay(full_text, search_text, positions[i])
                             ELSE <<>>]]

FindTextSites == {"Run(SelectAll)", "GetTextFile", "Run(MoveDocBegin)"}
find_text_op(c0, F, T, search_text, show_context, answer) ==
    LET full_text == TextOrEmpty(answer)
        positions == FindPositions(LowerStr(full_text), LowerStr(search_text), 0)
        S0 == {check_initialization([c0 EXCEPT !.args = <<search_text, show_context,
                                                         full_text>>], F, T)}
        S1 == {Calls(c, <<<<"Run(SelectAll)", "handle">>, <<"GetTextFile", "handle">>,
                          <<"Run(MoveDocBegin)", "handle">>>>, 1, F) : c \in S0}
        S2 == {IF full_text = <<>>
               THEN Return(c, "early", "find_text: no content", "", 0)
               ELSE c : c \in S1}
        S3 == {IF Live(c) /\ positions = <<>>
               THEN Return(c, "early", "find_text: not found", "", 0)
               ELSE c : c \in S2}
        S4 == {IF Live(c)
               THEN [c EXCEPT !.lines = FindResults(full_text, search_text, positions,
                                                    show_context)]
               ELSE c : c \in S3}
        S5 == {Log(c, "info") : c \in S4}
        S6 == {IF Live(c)
               THEN [c EXCEPT !.ret = [kind |-> "success", msg |-> "find_text: result",
                                       doc |-> "", n |-> Len(positions)],
                              !.out = Report(Len(positions), Len(positions), c.lines)]
               ELSE c : c \in S5}
    IN  One({Except(c, "find_text: failed") : c \in S6})

InitFind ==
    /\ hwp = None
    /\ is_initialized = FALSE
    /\ current_document = None
    /\ docs = <<>>
    /\ just_quit = FALSE
    /\ just_switched = -1
    /\ content = NoContent
    /\ last = Idle
    /\ shadow = NoShadow
    /\ scan = NoScan

find_text ==
    /\ Ready
    /\ \E F \in SingleFailure(FindTextSites \cup LazySites), T \in SUBSET LazyTruthy,
          search_text \in FindSearches, show_context \in BOOLEAN,
          answer \in FindTexts \cup {NoneText} :
        \E c \in {find_text_op(Start, F, T, search_text, show_context, answer)} :
            Finish("find_text", c, c)

NextFind ==
    \/ find_text
    \/ Respond

SpecFind == InitFind /\ [][NextFind]_vars

\* ================================================================ claims
Range(seq) == {seq[i] : i \in DOMAIN seq}
\* the calls of the answered operation made at call site `name`
Made(name) == {i \in DOMAIN last.calls : last.calls[i].name = name}
Answered == last.op # "idle"
OwnHandleOps == {"get_running_hwp_documents", "connect_to_running_hwp"}

\* C1: no tool operation propagates an exception to its caller: whatever the
\* controller state and whichever external call fails (lazy initialization
\* included), the operation returns a status string.
NoExceptionEscapes ==
    Answered => ~last.raised /\ last.ret.kind \in {"success", "failure", "early"}

\* C1 witness: lazy initialization fails inside create_document, and the
\* caller still gets the failure string.
LazyInitFailureAnswered ==
    /\ last.op = "create_document"
    /\ last.ret.kind = "failure"
    /\ \E i \in DOMAIN last.calls : last.calls[i].phase = "init" /\ last.calls[i].failed

\* C2 (as stated): whenever an external call raises during an operation, the
\* operation returns its failure string and writes an error log record; it
\* never returns its success message.
EveryFailureReported ==
    (\E i \in DOMAIN last.calls : last.calls[i].failed)
        => last.ret.kind = "failure" /\ "error" \in Range(last.logs)

\* C2 (amended): whenever an external call raises outside every inner try
\* block, the operation returns its failure string and an error log record
\* is written; it does not return its success message.
UnguardedFailureReported ==
    (\E i \in DOMAIN last.calls : last.calls[i].failed /\ ~last.calls[i].inner)
        => last.ret.kind = "failure" /\ "error" \in Range(last.logs)

\* C2 witness: Quit raises in quit_hwp, which answers with its failure string.
QuitFailureReported ==
    /\ last.op = "quit_hwp"
    /\ \E i \in Made("Quit") : last.calls[i].failed
    /\ last.ret.kind = "failure"

Cleared == hwp = None /\ ~is_initialized /\ current_document = None

\* C4 (as stated): after a successful quit_hwp the controller is cleared, and
\* the next operation that uses the controller's handle starts with lazy
\* initialization, before any other external call.
FreshHandleAfterQuit ==
    /\ just_quit => Cleared
    /\ last.after_quit /\ (\E i \in DOMAIN last.calls : last.calls[i].target = "handle")
           => last.calls[1].phase = "init"

\* C4 (amended): after a successful quit_hwp the controller is cleared, and
\* the next operation, unless it is get_running_hwp_documents or
\* connect_to_running_hwp, starts with lazy initialization (CoInitialize
\* first) and calls the handle only once that has set is_initialized.
FreshHandleAfterQuitByCheck ==
    /\ just_quit => Cleared
    /\ last.after_quit /\ Answered /\ last.op \notin OwnHandleOps
           => /\ last.calls # <<>>
              /\ last.calls[1].phase = "init" /\ last.calls[1].name = "CoInitialize"
              /\ \A i \in DOMAIN last.calls :
                    last.calls[i].phase = "op" /\ last.calls[i].target = "handle"
                        => last.calls[i].init /\ last.calls[i].h

\* C4 witness: create_document right after a successful quit_hwp succeeds on
\* a fresh handle.
CreateAfterQuit ==
    /\ last.after_quit
    /\ last.op = "create_document"
    /\ last.ret.kind = "success"
    /\ hwp = HwpObject

\* C5: the closing loop of close_all_documents makes at most max_attempts
\* attempts (at most max_attempts FileClose runs, a reported count of at most
\* max_attempts), and an attempt that raises is its last.
CloseLoopBounded ==
    last.op = "close_all_documents" =>
        /\ Cardinality(Made("XHwpDocuments.Count(loop)")) <= max_attempts
        /\ Cardinality(Made("Run(FileClose)")) <= max_attempts
        /\ last.ret.n <= max_attempts
        /\ \A i \in DOMAIN last.calls :
              last.calls[i].failed /\ last.calls[i].name \in CloseLoopSites
                  => i = Len(last.calls)

\* C5 witness: the application never gets to zero documents and the loop
\* stops at the cap.
CloseLoopHitsCap ==
    /\ last.op = "close_all_documents"
    /\ Cardinality(Made("Run(FileClose)")) = max_attempts
    /\ last.ret.n = max_attempts
    /\ Len(docs) > 0

\* C6: current_document is display only: the second run, which differs in
\* the initial current_document only, makes the same external calls, leaves
\* the same hwp / is_initialized / application state, writes the same log
\* records and returns the same strings, the document name shown by
\* get_document_info aside.
DisplayOnly ==
    shadow.on =>
        /\ shadow.hwp = hwp /\ shadow.init = is_initialized /\ shadow.docs = docs
        /\ shadow.calls = last.calls
        /\ shadow.logs = last.logs
        /\ shadow.raised = last.raised
        /\ last.op # "get_document_info" => shadow.ret = last.ret
        /\ [shadow.ret EXCEPT !.doc = ""] = [last.ret EXCEPT !.doc = ""]

\* C6 witness: get_document_info shows different document names in the two runs.
DisplayDiffers ==
    /\ shadow.on
    /\ last.op = "get_document_info"
    /\ last.ret.kind = "success"
    /\ shadow.ret.doc # last.ret.doc

\* C7: find_text's scan loop terminates for every text and every search
\* string: the scan start strictly increases on every iteration and never
\* exceeds len(text) + 1, so the loop reaches its break.
ScanTerminates ==
    /\ [][scan.pc = "loop" /\ scan'.pc = "loop"
            => scan'.start > scan.start /\ scan'.start <= Len(scan.text) + 1]_vars
    /\ <>(scan.pc = "done")

\* C7 witness: the scan for the empty search string ends, having recorded
\* every position 0 .. len(text).
EmptySearchScanned ==
    /\ scan.pc = "done"
    /\ scan.search = <<>>
    /\ Len(scan.positions) = Len(scan.text) + 1

\* C8 (as stated): on every return path of every operation at least one log
\* record is written before the status string is returned.
EveryReturnLogs == Answered => Len(last.logs) >= 1

\* C8 (amended): on the return at the end of an operation's try body and on
\* the return of its except clause at least one log record is written; the
\* other return statements may write none.
OutcomeReturnsLog ==
    last.ret.kind \in {"success", "failure"} => Len(last.logs) >= 1

\* C8 witness: move_to_page on an initialized controller succeeds with its
\* one info record.
MoveToPageLogged ==
    /\ last.op = "move_to_page"
    /\ last.ret.kind = "success"
    /\ last.logs = <<"info">>

\* C9: initialize() returns True if and only if is_initialized is true when
\* it returns (initialize_hwp answers "ok" exactly for True), from every
\* reachable state.
InitializeResultIsState ==
    last.op = "initialize_hwp" => ((last.ret.kind = "success") <=> is_initialized)

\* C10: whenever close_all_documents returns its success message the
\* application has no open document and current_document is None.
CloseAllClosesAll ==
    last.op = "close_all_documents" /\ last.ret.kind = "success"
        => Len(docs) = 0 /\ current_document = None

\* C11: the result of get_text_all (get_paragraph_text) contains the
\* operation's failure marker if and only if the operation failed, whatever
\* the document says.
FailureMarkerIffFailed ==
    /\ last.op = "get_text_all"
           => (Contains(last.out, TextReadFailed) <=> last.ret.kind = "failure")
    /\ last.op = "get_paragraph_text"
           => (Contains(last.out, ParaReadFailed) <=> last.ret.kind = "failure")

\* C12: whenever insert_text returns its success message, exactly one
\* InsertText action carrying the given text was executed on the handle.
InsertTextInserts ==
    last.op = "insert_text" /\ last.ret.kind = "success"
        => /\ Cardinality(Made("act.Execute(InsertText)")) = 1
           /\ \A i \in Made("act.Execute(InsertText)") : last.calls[i].arg = last.args[1]

\* C13: the external calls insert_header_footer makes with is_header = true
\* differ from those it makes with is_header = false.
HeaderFooterCallsDiffer ==
    /\ shadow.differs = "is_header"
    /\ last.op = "insert_header_footer"
    /\ last.ret.kind = "success" /\ shadow.ret.kind = "success"
    => shadow.calls # last.calls

\* C14: after switch_to_document succeeded in activating the document at
\* index k, an immediately following get_active_document_info reports the
\* name and path of that document.
ActiveDocumentReported ==
    /\ last.op = "get_active_document_info"
    /\ last.ret.kind = "success"
    /\ last.after_switch >= 0
    => last.out = DocumentInfo(docs[last.after_switch + 1])

\* str contains sub when upper and lower case are not told apart
ContainsIgnoringCase(str, sub) ==
    \E k \in 0..(Len(str) - Len(sub)) :
        \A j \in 1..Len(sub) : LowerChar(str[k + j]) = LowerChar(sub[j])

\* the open documents whose path (and so whose file name, its last
\* component) contains file_name, by 0-based index
Matching(file_name) ==
    {i \in 0..(Len(docs) - 1) : ContainsIgnoringCase(PathText(docs[i + 1]), file_name)}

TablePositions == {i \in 1..Len(content.ctrls) : content.ctrls[i] = "tbl"}
\* no call of the tool call raised
NoCallFailed == \A i \in 1..Len(last.calls) : ~last.calls[i].failed

InsertOnlyAtNthOccurrence ==
    /\ last.op \in {"insert_after_text", "insert_before_text"}
    /\ Made("act.Execute(InsertText)") # {}
    => /\ last.args[3] >= 1
       /\ Cardinality({i \in Made("Execute(RepeatFind)") : last.calls[i].res})
              = last.args[3]

\* A piece is a well-formed find->replace pair: it has an arrow, and
\* something other than blanks before its first arrow.
ArrowAt(piece) == {k \in 1..(Len(piece) - 1) : piece[k] = "-" /\ piece[k + 1] = ">"}
FirstArrow(piece) == CHOOSE k \in ArrowAt(piece) : \A j \in ArrowAt(piece) : k <= j
WellFormed(piece) ==
    /\ ArrowAt(piece) # {}
    /\ \E k \in 1..(FirstArrow(piece) - 1) : piece[k] # " "
\* a text without the blanks before its first and behind its last character
Trimmed(str) ==
    LET inked == {i \in 1..Len(str) : str[i] # " "}
    IN  [i \in 1..Cardinality({k \in 1..Len(str) :
                                 \E lo, hi \in inked : lo <= k /\ k <= hi}) |->
            str[i + Cardinality({k \in 1..Len(str) : \A lo \in inked : k < lo}) ]]
FindPart(piece) == Trimmed(SubSeq(piece, 1, FirstArrow(piece) - 1))
ReplacePart(piece) == Trimmed(SubSeq(piece, FirstArrow(piece) + 2, Len(piece)))
\* the replace-all executions of the answered call, in order
ReplaceExecutions == SelectSeq(last.calls, LAMBDA c : c.name = "Execute(AllReplace)")

\* C16: batch_replace handles its comma-separated pieces from left to right:
\* one replace-all per well-formed find->replace pair, each on the document
\* as the earlier ones left it; a piece without "->" or with an empty search
\* text gets a "!" line and no external call, and later pieces are still
\* handled; there is one result line per piece, and the reported count is
\* the number of replace-alls that returned true.
BatchReplaceInOrder ==
    last.op = "batch_replace" /\ last.ret.kind = "success" =>
        LET pieces == Split(last.args[1], ",")
            W == SelectSeq(pieces, WellFormed)
            E == ReplaceExecutions
        IN  /\ Len(last.out.lines) = Len(pieces)
            /\ last.out.total = Len(pieces)
            /\ \A i \in 1..Len(pieces) :
                   (last.out.lines[i].kind = "!") <=> ~WellFormed(pieces[i])
            /\ Len(E) = Len(W)
            /\ \A j \in 1..Len(W) :
                   /\ E[j].arg[1] = FindPart(W[j])
                   /\ E[j].arg[2] = ReplacePart(W[j])
                   /\ E[j].arg[3] = IF j = 1 THEN last.before.text
                                    ELSE ReplaceAll(E[j - 1].arg[3], E[j - 1].arg[1],
                                                    E[j - 1].arg[2])
            /\ \A x \in BatchSites : Cardinality(Made(x)) = Len(W)
            /\ last.out.done = Cardinality({j \in 1..Len(E) : E[j].res})

\* C16 witness: "a->b, b->a ,->b" on the document "a": the second pair undoes
\* the first, the third piece is refused, two of three are completed.
BatchSecondSeesFirst ==
    /\ last.op = "batch_replace"
    /\ last.ret.kind = "success"
    /\ last.before.text = <<"a">>
    /\ content.text = <<"a">>
    /\ last.out.total = 3
    /\ last.out.done = 2
    /\ last.out.lines[3].kind = "!"

\* C15: fill_template fills every field given as "name1=value1,
\* name2=value2": the placeholder of each pair that the document holds is
\* replaced by the pair's complete value, values with commas included, and
\* the reported total is the number of name=value pairs.
FieldsFilledCompletely ==
    last.op = "fill_template" /\ last.ret.kind = "success" =>
        \A fields \in FieldLists(MaxFields) :
            Format(fields) = last.args[1] =>
                /\ last.out.total = Len(fields)
                /\ \A i \in 1..Len(ReplaceExecutions) :
                       LET e == ReplaceExecutions[i]
                       IN  e.res => \E k \in 1..Len(fields) :
                                       /\ e.arg[1] \in Range(Placeholders(fields[k].name))
                                       /\ e.arg[2] = fields[k].value

\* the enumerated windows (by position) that are visible Hangul windows
VisibleHwp(windows) ==
    {i \in 1..Len(windows) : windows[i].visible /\ IsHwpWindow(windows[i])}
\* those of them whose title contains search_text
MatchingWindows(windows, search_text) ==
    {i \in VisibleHwp(windows) : ContainsIgnoringCase(windows[i].title, search_text)}

\* C20: connect_to_hwp_window connects to the first window in enumeration
\* order (of the visible Hangul windows) whose title contains search_text
\* case-insensitively; when there is no visible Hangul window or none
\* matches it returns a not-found message and leaves hwp, is_initialized and
\* current_document unchanged.
ConnectsToFirstMatchingWindow ==
    last.op = "connect_to_hwp_window" =>
        LET M == MatchingWindows(last.args[2], last.args[1])
            activated == {last.calls[i].arg : i \in Made("SetForegroundWindow")}
        IN  /\ \A w \in activated : w \in M /\ \A i \in M : w <= i
            /\ last.ret.kind = "success" =>
                  /\ Cardinality(activated) = 1
                  /\ \A w \in activated : last.out = last.args[2][w].title
                  /\ hwp = HwpObject /\ is_initialized
            /\ M = {} /\ last.ret.kind # "failure" =>
                  /\ last.ret.kind = "early"
                  /\ (last.ret.msg = "connect_to_hwp_window: no window")
                        <=> (VisibleHwp(last.args[2]) = {})
                  /\ <<hwp, is_initialized, current_document>> = last.pre
                  /\ \A i \in 1..Len(last.calls) :
                        last.calls[i].name \in {"CoInitialize", "EnumWindows"}
            /\ last.ret.kind = "early" => M = {}

\* C20 witness: two visible Hangul windows match "a" ("A.hwp" twice, or
\* behind a window of another program); the first is connected to.
ConnectedToFirstOfTwo ==
    /\ last.op = "connect_to_hwp_window"
    /\ last.ret.kind = "success"
    /\ Cardinality(MatchingWindows(last.args[2], last.args[1])) = 2
    /\ last.args[1] = <<"a">>

\* two characters are the same letter, upper or lower case
SameLetter(x, y) == x = y \/ {x, y} = {"a", "A"}
\* the 0-based start positions at which search occurs in text
Occurrences(text, search) ==
    {p \in 0..(Len(text) - Len(search)) :
        \A j \in 1..Len(search) : SameLetter(text[p + j], search[j])}
\* the 0-based positions just behind a line separator of text
LineStarts(text) ==
    {q \in 2..Len(text) : text[q - 1] = "\r" /\ text[q] = "\n"}

\* C21: find_text reports every occurrence: the count is the number of
\* start positions at which search_text occurs in the document text
\* case-insensitively, overlapping ones included; there is one entry per
\* occurrence in ascending position order, each with the 1-based index of
\* the line that holds the position (between 1 and the number of lines) and
\* the page  line // 50 + 1.
FindTextReportsEveryOccurrence ==
    last.op = "find_text" /\ last.ret.kind = "success" =>
        LET text == last.args[3]
            Occ == Occurrences(text, last.args[1])
            entries == last.out.lines
        IN  /\ last.out.total = Cardinality(Occ)
            /\ Len(entries) = Cardinality(Occ)
            /\ \A k \in 1..Len(entries) :
                   /\ entries[k].pos \in Occ
                   /\ Cardinality({p \in Occ : p <= entries[k].pos}) = k
                   /\ entries[k].line >= 1
                   /\ entries[k].line <= Cardinality(LineStarts(text)) + 1
                   /\ entries[k].line =
                          Cardinality({q \in LineStarts(text) : q <= entries[k].pos}) + 1
                   /\ entries[k].page = (entries[k].line \div 50) + 1

====
